---------------------------- MODULE Spec2Model ----------------------------
(***************************************************************************)
(* A model of src/main.py (wise-bid backend v3.5): the cost estimator      *)
(* calculate_rough_cost, the decision scorer analyze_n2b_decision and the  *)
(* bid matcher of match_bids / quick_match.                                *)
(*                                                                         *)
(* Python computes the money amounts with binary64 floats (base_price *    *)
(* 0.74, x / 100, int(...), round(..., 1)), so the model carries an exact  *)
(* binary64 arithmetic: a float is a sign, a 53-bit mantissa and an        *)
(* exponent, and every operation rounds to nearest, ties to even, as the   *)
(* hardware does.  Mantissas and integer products do not fit the 32-bit    *)
(* integers of the model checker, so they are kept as sequences of 14-bit  *)
(* limbs, least significant first.                                         *)
(***************************************************************************)
EXTENDS Integers, Sequences, FiniteSets, TLC

(***************************************************************************)
(* Natural numbers of any size: little-endian sequences of limbs, without  *)
(* leading zero limbs (zero is the empty sequence).                        *)
(***************************************************************************)
Limb == 2^14

Abs(n) == IF n < 0 THEN -n ELSE n

RECURSIVE BTrim(_)
BTrim(a) ==
    IF a = <<>> THEN <<>>
    ELSE IF a[Len(a)] = 0 THEN BTrim(SubSeq(a, 1, Len(a) - 1))
    ELSE a

RECURSIVE BFromNat(_)
BFromNat(n) == IF n = 0 THEN <<>> ELSE <<n % Limb>> \o BFromNat(n \div Limb)

RECURSIVE BToNat(_)
BToNat(a) == IF a = <<>> THEN 0 ELSE a[1] + Limb * BToNat(Tail(a))

BLimb(a, i) == IF i <= Len(a) THEN a[i] ELSE 0

RECURSIVE BAddFrom(_, _, _, _)
BAddFrom(a, b, i, c) ==
    IF i > Len(a) /\ i > Len(b)
    THEN (IF c = 0 THEN <<>> ELSE <<c>>)
    ELSE LET s == BLimb(a, i) + BLimb(b, i) + c
         IN  <<s % Limb>> \o BAddFrom(a, b, i + 1, s \div Limb)

BAdd(a, b) == BAddFrom(a, b, 1, 0)

\* a - b for a >= b
RECURSIVE BSubFrom(_, _, _, _)
BSubFrom(a, b, i, c) ==
    IF i > Len(a) THEN <<>>
    ELSE LET s == BLimb(a, i) - BLimb(b, i) - c
         IN  IF s < 0 THEN <<s + Limb>> \o BSubFrom(a, b, i + 1, 1)
             ELSE <<s>> \o BSubFrom(a, b, i + 1, 0)

BSub(a, b) == BTrim(BSubFrom(a, b, 1, 0))

\* -1, 0, 1 as a < b, a = b, a > b
RECURSIVE BCmpFrom(_, _, _)
BCmpFrom(a, b, i) ==
    IF i = 0 THEN 0
    ELSE IF a[i] < b[i] THEN -1
    ELSE IF a[i] > b[i] THEN 1
    ELSE BCmpFrom(a, b, i - 1)

BCmp(a, b) ==
    IF Len(a) < Len(b) THEN -1
    ELSE IF Len(a) > Len(b) THEN 1
    ELSE BCmpFrom(a, b, Len(a))

\* a * k for 0 <= k < Limb
RECURSIVE BMulSmallFrom(_, _, _, _)
BMulSmallFrom(a, k, i, c) ==
    IF i > Len(a)
    THEN (IF c = 0 THEN <<>> ELSE <<c>>)
    ELSE LET s == a[i] * k + c
         IN  <<s % Limb>> \o BMulSmallFrom(a, k, i + 1, s \div Limb)

BMulSmall(a, k) == IF k = 0 THEN <<>> ELSE BMulSmallFrom(a, k, 1, 0)

Zeros(n) == [i \in 1..n |-> 0]

RECURSIVE BMulFrom(_, _, _)
BMulFrom(a, b, i) ==
    IF i > Len(b) THEN <<>>
    ELSE BAdd(IF b[i] = 0 THEN <<>> ELSE Zeros(i - 1) \o BMulSmall(a, b[i]),
              BMulFrom(a, b, i + 1))

BMul(a, b) == IF a = <<>> \/ b = <<>> THEN <<>> ELSE BMulFrom(a, b, 1)

\* a * 2^k
BShl(a, k) ==
    IF a = <<>> THEN <<>>
    ELSE Zeros(k \div 14) \o BMulSmall(a, 2^(k % 14))

\* floor(a / n) and a mod n for 0 < n < Limb, from the top limb down
RECURSIVE BDivSmallFrom(_, _, _, _)
BDivSmallFrom(a, n, i, r) ==
    IF i = 0 THEN <<<<>>, r>>
    ELSE LET cur  == r * Limb + a[i]
             rest == BDivSmallFrom(a, n, i - 1, cur % n)
         IN  <<Append(rest[1], cur \div n), rest[2]>>

\* one limb of long division by 0 < n < 2^30: bit j of limb x, remainder r
RECURSIVE DivBits(_, _, _, _, _)
DivBits(x, n, j, r, q) ==
    IF j < 0 THEN <<q, r>>
    ELSE LET r2 == 2 * r + ((x \div 2^j) % 2)
         IN  IF r2 >= n THEN DivBits(x, n, j - 1, r2 - n, 2 * q + 1)
             ELSE DivBits(x, n, j - 1, r2, 2 * q)

RECURSIVE BDivBigFrom(_, _, _, _)
BDivBigFrom(a, n, i, r) ==
    IF i = 0 THEN <<<<>>, r>>
    ELSE LET d    == DivBits(a[i], n, 13, r, 0)
             rest == BDivBigFrom(a, n, i - 1, d[2])
         IN  <<Append(rest[1], d[1]), rest[2]>>

\* <<floor(a / n), a mod n>> for a native divisor 0 < n < 2^30
BTrimQuotient(qr) == <<BTrim(qr[1]), qr[2]>>

BDivMod(a, n) ==
    BTrimQuotient(IF n < Limb THEN BDivSmallFrom(a, n, Len(a), 0)
                  ELSE BDivBigFrom(a, n, Len(a), 0))

\* floor(a / 2^k)
BShr(a, k) ==
    LET w == k \div 14
    IN  IF w >= Len(a) THEN <<>>
        ELSE BDivMod(SubSeq(a, w + 1, Len(a)), 2^(k % 14))[1]

RECURSIVE NatBits(_)
NatBits(n) == IF n = 0 THEN 0 ELSE 1 + NatBits(n \div 2)

BBitLen(a) == IF a = <<>> THEN 0 ELSE 14 * (Len(a) - 1) + NatBits(a[Len(a)])

BIsOdd(a) == a # <<>> /\ a[1] % 2 = 1

\* long division by a divisor b # 0 of any size, limb by limb, for a b whose
\* top limb is at least Limb / 2.  The limb of the quotient is guessed from
\* the top limbs of the remainder r < b * Limb and of b; the guess is never
\* too small, and it is lowered while guess * b (the product p) exceeds r.
RECURSIVE BLongDivFix(_, _, _, _)
BLongDivFix(r, b, guess, p) ==
    IF BCmp(p, r) > 0 THEN BLongDivFix(r, b, guess - 1, BSub(p, b))
    ELSE <<guess, BSub(r, p)>>

BLongDivGuess(r, b) ==
    (BLimb(r, Len(b) + 1) * Limb + BLimb(r, Len(b))) \div b[Len(b)]

BLongDivDigit(r, b, guess) ==
    IF guess >= Limb THEN BLongDivFix(r, b, Limb - 1, BMulSmall(b, Limb - 1))
    ELSE BLongDivFix(r, b, guess, BMulSmall(b, guess))

\* the limbs of a from the i-th up: <<the limbs of the quotient, the
\* remainder>>
RECURSIVE BLongDivFrom(_, _, _)
BLongDivJoin(q, d) == << <<d[1]>> \o q, d[2] >>

BLongDivStep(q, r, b) == BLongDivJoin(q, BLongDivDigit(r, b, BLongDivGuess(r, b)))

BLongDivLimb(upper, x, b) ==
    BLongDivStep(upper[1], BTrim(<<x>> \o upper[2]), b)

BLongDivFrom(a, b, i) ==
    IF i > Len(a) THEN << <<>>, <<>> >>
    ELSE BLongDivLimb(BLongDivFrom(a, b, i + 1), a[i], b)

\* <<floor(a / b), 0 if b divides a and else 1>>
BLongDivResult(qr) == <<BTrim(qr[1]), IF qr[2] = <<>> THEN 0 ELSE 1>>

BLongDivShifted(a, b, k) == BLongDivResult(BLongDivFrom(BShl(a, k), BShl(b, k), 1))

BLongDiv(a, b) == BLongDivShifted(a, b, 14 - NatBits(b[Len(b)]))

\* q or q + 1, as the remainder compares to one half (c = -1, 0, 1)
BRoundUp(q, c, sticky) ==
    IF c > 0 \/ (c = 0 /\ (sticky \/ BIsOdd(q))) THEN BAdd(q, <<1>>) ELSE q

BRoundRem(a, k, sticky, q) ==
    BRoundUp(q, BCmp(BSub(a, BShl(q, k)), BShl(<<1>>, k - 1)), sticky)

\* round(a / 2^k) to the nearest natural, ties to even; sticky: the exact
\* value lies strictly above a (by less than one unit)
BRoundShr(a, k, sticky) ==
    IF k = 0 THEN a ELSE BRoundRem(a, k, sticky, BShr(a, k))

(***************************************************************************)
(* binary64 floats: value = (-1)^neg * m * 2^e with 2^52 <= m < 2^53, or   *)
(* zero (m empty).  Magnitudes stay far inside the normal range, so there  *)
(* are no subnormals, infinities or NaNs to represent; -0.0 is kept as     *)
(* 0.0, which compares, truncates and rounds the same.                     *)
(***************************************************************************)
DZero == [neg |-> FALSE, m |-> <<>>, e |-> 0]

\* the float nearest to big * 2^e (sticky: plus a fraction of the last unit);
\* a sticky value always comes with at least 55 bits
DPack(neg, q, e) ==
    IF BBitLen(q) = 54
    THEN [neg |-> neg, m |-> BShr(q, 1), e |-> e + 1]
    ELSE [neg |-> neg, m |-> q, e |-> e]

DRoundLen(neg, big, e, sticky, L) ==
    IF L <= 53
    THEN [neg |-> neg, m |-> BShl(big, 53 - L), e |-> e - (53 - L)]
    ELSE DPack(neg, BRoundShr(big, L - 53, sticky), e + (L - 53))

DRound(neg, big, e, sticky) ==
    IF big = <<>> THEN DZero ELSE DRoundLen(neg, big, e, sticky, BBitLen(big))

\* float(n) of an int
DFromInt(n) == DRound(n < 0, BFromNat(Abs(n)), 0, FALSE)

DNeg(x) == IF x.m = <<>> THEN x ELSE [x EXCEPT !.neg = ~x.neg]

\* x * y
DMul(x, y) == DRound(x.neg # y.neg, BMul(x.m, y.m), x.e + y.e, FALSE)

\* x / n for an int n # 0 with |n| < 2^30
DDivRound(neg, qr, e) == DRound(neg, qr[1], e, qr[2] # 0)

DDivInt(x, n) ==
    DDivRound(x.neg # (n < 0), BDivMod(BShl(x.m, 32), Abs(n)), x.e - 32)

\* x / y for a float y # 0
DDiv(x, y) ==
    IF x.m = <<>> THEN DZero
    ELSE DDivRound(x.neg # y.neg, BLongDiv(BShl(x.m, 56), y.m), x.e - 56 - y.e)

\* x + y
\* the signed sum of X * 2^lo and Y * 2^lo (c compares X to Y)
DAddAligned(xneg, X, yneg, Y, lo, c) ==
    DRound(IF c >= 0 THEN xneg ELSE yneg,
           IF xneg = yneg THEN BAdd(X, Y)
           ELSE IF c >= 0 THEN BSub(X, Y) ELSE BSub(Y, X),
           lo, FALSE)

DAddCmp(xneg, X, yneg, Y, lo) == DAddAligned(xneg, X, yneg, Y, lo, BCmp(X, Y))

DAddAt(x, y, lo) ==
    DAddCmp(x.neg, BShl(x.m, x.e - lo), y.neg, BShl(y.m, y.e - lo), lo)

DAdd(x, y) ==
    IF x.m = <<>> THEN y
    ELSE IF y.m = <<>> THEN x
    ELSE DAddAt(x, y, IF x.e < y.e THEN x.e ELSE y.e)

DSub(x, y) == DAdd(x, DNeg(y))

\* x < y, x >= y
DIsNegative(d) == d.m # <<>> /\ d.neg
DLess(x, y) == DIsNegative(DSub(x, y))
DGeq(x, y) == ~DLess(x, y)

\* int(x): truncation toward zero
Signed(neg, mag) == IF neg THEN -mag ELSE mag

DTrunc(x) ==
    IF x.m = <<>> THEN 0
    ELSE Signed(x.neg, IF x.e >= 0 THEN BToNat(BShl(x.m, x.e))
                       ELSE BToNat(BShr(x.m, -x.e)))

\* round(x, 1), as the number of tenths: Python rounds the exact binary
\* value to one decimal, ties to even
DRoundTenths(x) ==
    IF x.m = <<>> THEN 0
    ELSE Signed(x.neg, IF x.e >= 0 THEN BToNat(BShl(BMulSmall(x.m, 10), x.e))
                       ELSE BToNat(BRoundShr(BMulSmall(x.m, 10), -x.e, FALSE)))

\* a decimal literal written with two decimals, such as 0.74 = 74/100:
\* Python reads it as the float nearest to the decimal
DLit100(n) == DDivInt(DFromInt(n), 100)

\* a * b of two ints, as Python's exact int product, converted to a float
\* (the products of the model stay below 2^53, where this is exact)
DFromProduct(a, b) ==
    DRound((a < 0) # (b < 0), BMul(BFromNat(Abs(a)), BFromNat(Abs(b))), 0, FALSE)

(***************************************************************************)
(* The state.  The only state the program keeps between requests is        *)
(* daily_usage; the clock and, for each group of endpoints, the request    *)
(* being served and the response to it are the rest of the model's state.  *)
(***************************************************************************)
VARIABLES
    today,            \* str(date.today()), as a day number
    daily_usage,      \* daily_usage: date -> client ip -> app type -> count
    costRequest,      \* the query parameters of a GET /api/quick-estimate
    costResult,       \* the dict calculate_rough_cost returned for them
    decisionRequest,  \* a request to /api/n2b-decision or /api/quick-decision
    decisionResponse, \* the response to it
    matchRequest,     \* a request to /api/bid-match or /api/quick-match,
                      \* with the announcements the remote lookup then returns
    matchResponse,    \* the response to it
    rateCall,         \* the last call of check_rate_limit: its arguments,
                      \* daily_usage before it, what it returned or raised
    acceptedNormal,   \* per (ip, app type): the calls of today that were
                      \* made without the premium key and were accepted
    rateResponse,     \* the last response of /api/cost-estimate or
                      \* /api/bid-search
    reportRequest,    \* a request to /api/full-analysis (GET or POST) or to
                      \* /api/winning-rate
    reportResponse    \* the response to it

rateVars == <<rateCall, acceptedNormal, rateResponse>>
reportVars == <<reportRequest, reportResponse>>

vars == <<today, daily_usage, costRequest, costResult, decisionRequest,
          decisionResponse, matchRequest, matchResponse, rateVars, reportVars>>

\* no request of that kind under way, no response yet
NoRequest == [none |-> TRUE]
NoResult == [none |-> TRUE]

\* daily_usage: dict = {}
EmptyUsage == <<>>

\* check_rate_limit has not been called and no limited endpoint has answered
NoRateCalls ==
    /\ rateCall = NoResult
    /\ acceptedNormal = <<>>
    /\ rateResponse = NoResult

\* no request for a report
NoReport ==
    /\ reportRequest = NoRequest
    /\ reportResponse = NoResult


(***************************************************************************)
(* COST_RATIOS.  The work-type keys are romanised, as strings of the model *)
(* are ASCII:  doro = 도로, tomok = 토목, geonchuk = 건축, seolbi = 설비,  *)
(* jeongi = 전기, jogyeong = 조경, sanghasudo = 상하수도, pojang = 포장,   *)
(* cheolgeunconcrete = 철근콘크리트, cheolgol = 철골, gita = 기타.         *)
(* Fields: material = 재료비, labor = 노무비, equipment = 경비.            *)
(***************************************************************************)
Ratio(m, l, e) == [material |-> m, labor |-> l, equipment |-> e]

COST_RATIOS ==
    [doro              |-> Ratio(55, 25, 20),
     tomok             |-> Ratio(40, 35, 25),
     geonchuk          |-> Ratio(50, 30, 20),
     seolbi            |-> Ratio(60, 25, 15),
     jeongi            |-> Ratio(55, 30, 15),
     jogyeong          |-> Ratio(45, 35, 20),
     sanghasudo        |-> Ratio(50, 30, 20),
     pojang            |-> Ratio(55, 25, 20),
     cheolgeunconcrete |-> Ratio(50, 35, 15),
     cheolgol          |-> Ratio(60, 25, 15),
     gita              |-> Ratio(50, 30, 20)]

WorkTypes == DOMAIN COST_RATIOS

\* COST_RATIOS.get(work_type, COST_RATIOS["기타"])
RatiosOf(work_type) ==
    IF work_type \in WorkTypes THEN COST_RATIOS[work_type] ELSE COST_RATIOS["gita"]

(***************************************************************************)
(* calculate_rough_cost, step by step.                                     *)
(***************************************************************************)
\* a direct share of 73% instead of 74%
EstimatedDirectCost_Ratio73(base_price) ==
    DTrunc(DMul(DFromInt(base_price), DLit100(73)))

\* estimated_direct_cost = int(base_price * direct_cost_ratio), ratio 0.74
EstimatedDirectCost(base_price) == DTrunc(DMul(DFromInt(base_price), DLit100(74)))

\* int(estimated_direct_cost * ratios[...] / 100)
ShareOf(direct_cost, pct) == DTrunc(DDivInt(DFromProduct(direct_cost, pct), 100))

\* standard_cost["간접비"] = int(base_price * 0.26)
StandardIndirect(base_price) == DTrunc(DMul(DFromInt(base_price), DLit100(26)))

\* the amount saved instead of the amount left: int(cost * (discount / 100))
Discounted_SavedAmount(cost, discount) ==
    DTrunc(DMul(DFromInt(cost), DDivInt(DFromInt(discount), 100)))

\* the discount added instead of taken off: int(cost * (1 + discount / 100))
Discounted_Surcharge(cost, discount) ==
    DTrunc(DMul(DFromInt(cost),
                DAdd(DFromInt(1), DDivInt(DFromInt(discount), 100))))

\* int(cost * (1 - discount / 100))
Discounted(cost, discount) ==
    DTrunc(DMul(DFromInt(cost),
                DSub(DFromInt(1), DDivInt(DFromInt(discount), 100))))

\* actual_direct / estimated_direct_cost if estimated_direct_cost > 0 else 1
DirectReductionRate(actual_direct, estimated_direct_cost) ==
    IF estimated_direct_cost > 0
    THEN DDivInt(DFromInt(actual_direct), estimated_direct_cost)
    ELSE DFromInt(1)

\* the 35% indirect share of the comment above the code instead of 26%
ActualIndirect_Ratio35(base_price, direct_reduction_rate) ==
    DTrunc(DMul(DMul(DFromInt(base_price), DLit100(35)), direct_reduction_rate))

\* the indirect cost not scaled with the direct cost: int(base_price * 0.26)
ActualIndirect_Unscaled(base_price, direct_reduction_rate) ==
    DTrunc(DMul(DFromInt(base_price), DLit100(26)))

\* actual_indirect = int(base_price * 0.26 * direct_reduction_rate)
ActualIndirect(base_price, direct_reduction_rate) ==
    DTrunc(DMul(DMul(DFromInt(base_price), DLit100(26)), direct_reduction_rate))

\* bubble_rate = ((base_price - actual_total) / base_price * 100)
\*               if base_price > 0 else 0
BubbleRate(base_price, actual_total) ==
    IF base_price > 0
    THEN DMul(DDivInt(DFromInt(base_price - actual_total), base_price), DFromInt(100))
    ELSE DZero

\* Python's min(a, b) and max(a, b) of two numbers
PyMin(a, b) == IF DLess(b, a) THEN b ELSE a
PyMax(a, b) == IF DLess(a, b) THEN b ELSE a

\* recommended_rate = (actual_total / base_price * 100) + 10
\*                    if base_price > 0 else 88
RawRecommendedRate(base_price, actual_total) ==
    IF base_price > 0
    THEN DAdd(DMul(DDivInt(DFromInt(actual_total), base_price), DFromInt(100)),
              DFromInt(10))
    ELSE DFromInt(88)

\* the rate without the two clamping lines
RecommendedRate_Unclamped(base_price, actual_total) ==
    RawRecommendedRate(base_price, actual_total)

\* recommended_rate = min(recommended_rate, 95)
\* recommended_rate = max(recommended_rate, 75)
RecommendedRate(base_price, actual_total) ==
    PyMax(PyMin(RawRecommendedRate(base_price, actual_total), DFromInt(95)),
          DFromInt(75))

\* 4. standard_cost = 표준원가 (material = 재료비, labor = 노무비, equipment =
\* 경비, direct = 직접공사비, indirect = 간접비, total = 합계)
StandardCost(base_price, ratios, estimated_direct_cost) ==
    [material  |-> ShareOf(estimated_direct_cost, ratios.material),
     labor     |-> ShareOf(estimated_direct_cost, ratios.labor),
     equipment |-> ShareOf(estimated_direct_cost, ratios.equipment),
     direct    |-> estimated_direct_cost,
     indirect  |-> StandardIndirect(base_price),
     total     |-> base_price]

\* 5. actual_material, actual_labor, actual_equipment
ActualParts(standard_cost, discounts) ==
    [material  |-> Discounted(standard_cost.material, discounts.material),
     labor     |-> Discounted(standard_cost.labor, discounts.labor),
     equipment |-> Discounted(standard_cost.equipment, discounts.equipment)]

\* actual_direct = actual_material + actual_labor + actual_equipment
ActualDirect(parts) == parts.material + parts.labor + parts.equipment

\* actual_total = actual_direct + actual_indirect
ActualTotal(actual_direct, actual_indirect) == actual_direct + actual_indirect

\* The returned dict.  standard = 표준원가, actual = 실제원가, savings =
\* 절감금액, bubble_rate = 거품률 and recommended_rate = 권장투찰률 (both
\* rounded to one decimal and kept in tenths), min_expected / max_expected =
\* 예정가격범위, min_bid_price = 최저투찰가, recommended_price = 권장투찰가.
CostDict(req, ratios, standard_cost, parts, actual_direct, actual_indirect, actual_total, recommended_rate) ==
    [base_price |-> req.base_price,
     work_type  |-> req.work_type,
     ratios     |-> ratios,
     discounts  |-> req.discounts,
     standard   |-> standard_cost,
     actual     |-> [material  |-> parts.material,
                     labor     |-> parts.labor,
                     equipment |-> parts.equipment,
                     direct    |-> actual_direct,
                     indirect  |-> actual_indirect,
                     total     |-> actual_total],
     savings    |-> standard_cost.total - actual_total,
     bubble_rate |-> DRoundTenths(BubbleRate(req.base_price, actual_total)),
     min_expected |-> DTrunc(DMul(DFromInt(req.base_price), DLit100(97))),
     max_expected |-> DTrunc(DMul(DFromInt(req.base_price), DLit100(103))),
     min_bid_price |-> DTrunc(DMul(DFromInt(actual_total), DLit100(105))),
     recommended_rate  |-> DRoundTenths(recommended_rate),
     recommended_price |->
         DTrunc(DDivInt(DMul(DFromInt(req.base_price), recommended_rate), 100))]

\* The body of calculate_rough_cost from a value on: each operator takes the
\* values computed so far and computes the next one, in the order of the code.
CostFromTotal(req, ratios, standard_cost, parts, actual_direct, actual_indirect, actual_total) ==
    CostDict(req, ratios, standard_cost, parts, actual_direct, actual_indirect,
             actual_total, RecommendedRate(req.base_price, actual_total))

CostFromIndirect(req, ratios, standard_cost, parts, actual_direct, actual_indirect) ==
    CostFromTotal(req, ratios, standard_cost, parts, actual_direct,
                  actual_indirect, ActualTotal(actual_direct, actual_indirect))

CostFromDirect(req, ratios, standard_cost, parts, actual_direct) ==
    CostFromIndirect(req, ratios, standard_cost, parts, actual_direct,
        ActualIndirect(req.base_price,
                       DirectReductionRate(actual_direct, standard_cost.direct)))

CostFromParts(req, ratios, standard_cost, parts) ==
    CostFromDirect(req, ratios, standard_cost, parts, ActualDirect(parts))

CostFromStandard(req, ratios, standard_cost) ==
    CostFromParts(req, ratios, standard_cost,
                  ActualParts(standard_cost, req.discounts))

CostFromRatios(req, ratios) ==
    CostFromStandard(req, ratios,
        StandardCost(req.base_price, ratios, EstimatedDirectCost(req.base_price)))

\* calculate_rough_cost(base_price, work_type, material_discount,
\*                      labor_discount, equipment_discount), the arguments
\* as one record
calculate_rough_cost(req) == CostFromRatios(req, RatiosOf(req.work_type))

(***************************************************************************)
(* The requests the estimator is driven with.                              *)
(***************************************************************************)
MaxSmallPrice == 12

\* every small base price, zero and negative ones, and some realistic ones
BasePrices ==
    (-2 .. MaxSmallPrice) \cup {50, 500, 5000, 11400, 123456789, 1000000000}

\* the 11 work types and one that is not in the table
RequestWorkTypes == WorkTypes \cup {"unknown"}

DiscountValues == {-50, 0, 10, 50, 100, 150}

\* (material, labor, equipment) discounts: uniform ones and some mixed ones
Discounts(m, l, e) == [material |-> m, labor |-> l, equipment |-> e]

DiscountTriples ==
    {Discounts(x, x, x) : x \in DiscountValues}
        \cup {Discounts(10, 15, 10), Discounts(50, 0, 25), Discounts(0, 100, 0),
              Discounts(150, -50, 300)}

CostRequests ==
    [base_price : BasePrices, work_type : RequestWorkTypes,
     discounts : DiscountTriples]

\* the program has just started and one request to the estimator arrives
InitCost ==
    /\ today = 1
    /\ daily_usage = EmptyUsage
    /\ costRequest \in CostRequests
    /\ costResult = NoResult
    /\ decisionRequest = NoRequest
    /\ decisionResponse = NoResult
    /\ matchRequest = NoRequest
    /\ matchResponse = NoResult
    /\ NoRateCalls
    /\ NoReport

\* GET /api/quick-estimate: the handler answers the request
quick_estimate ==
    /\ costResult = NoResult
    /\ costResult' = calculate_rough_cost(costRequest)
    /\ UNCHANGED <<today, daily_usage, costRequest, decisionRequest,
                   decisionResponse, matchRequest, matchResponse, rateVars, reportVars>>

NextCost == quick_estimate

SpecCost == InitCost /\ [][NextCost]_vars

(***************************************************************************)
(* The daily limit: LIMITS and check_rate_limit.  A Python dict is a       *)
(* function on its keys; d.get(k, v) is Get(d, k, v).                      *)
(***************************************************************************)
Get(d, k, default) == IF k \in DOMAIN d THEN d[k] ELSE default

LIMITS ==
    [biz      |-> [normal |-> 10, premium |-> 200],
     proposal |-> [normal |-> 10, premium |-> 200],
     agency   |-> [normal |-> 100],
     bid      |-> [normal |-> 10, premium |-> 200],
     cost     |-> [normal |-> 20, premium |-> 200]]

ZeroCounters == [biz |-> 0, proposal |-> 0, agency |-> 0, bid |-> 0, cost |-> 0]

\* the new day is added and the old days are kept
UsageForDay_KeepOldDays(usage, day) ==
    IF day \in DOMAIN usage THEN usage ELSE (day :> <<>>) @@ usage

\* if today not in daily_usage: daily_usage.clear(); daily_usage[today] = {}
UsageForDay(usage, day) == IF day \in DOMAIN usage THEN usage ELSE (day :> <<>>)

\* if ip not in daily_usage[today]: daily_usage[today][ip] = {... all 0}
UsageForClient(usage, day, ip) ==
    IF ip \in DOMAIN usage[day]
    THEN usage
    ELSE [usage EXCEPT ![day] = (ip :> ZeroCounters) @@ usage[day]]

LimitOf(app_type, is_premium) ==
    IF app_type \in DOMAIN LIMITS
    THEN Get(LIMITS[app_type], IF is_premium THEN "premium" ELSE "normal", 10)
    ELSE 10

\* one call more than the limit is let through
RateLimitOutcome_OneOver(usage, day, ip, app_type, limit, current) ==
    IF limit - current < 0
    THEN [daily_usage |-> usage, status_code |-> 429, limit |-> limit]
    ELSE [daily_usage |-> [usage EXCEPT ![day][ip] =
                              (app_type :> (current + 1)) @@ usage[day][ip]],
          status_code |-> 200,
          used |-> current + 1, limit |-> limit,
          remaining |-> (limit - current) - 1]

\* a rejected call is counted too
RateLimitOutcome_CountRejected(usage, day, ip, app_type, limit, current) ==
    IF limit - current <= 0
    THEN [daily_usage |-> [usage EXCEPT ![day][ip] =
                              (app_type :> (current + 1)) @@ usage[day][ip]],
          status_code |-> 429, limit |-> limit]
    ELSE [daily_usage |-> [usage EXCEPT ![day][ip] =
                              (app_type :> (current + 1)) @@ usage[day][ip]],
          status_code |-> 200,
          used |-> current + 1, limit |-> limit,
          remaining |-> (limit - current) - 1]

\* the count, the comparison with the limit, and the raise or the increment
RateLimitOutcome(usage, day, ip, app_type, limit, current) ==
    IF limit - current <= 0
    THEN [daily_usage |-> usage, status_code |-> 429, limit |-> limit]
    ELSE [daily_usage |-> [usage EXCEPT ![day][ip] =
                              (app_type :> (current + 1)) @@ usage[day][ip]],
          status_code |-> 200,
          used |-> current + 1, limit |-> limit,
          remaining |-> (limit - current) - 1]

RateLimitCount(usage, day, ip, app_type, is_premium) ==
    RateLimitOutcome(usage, day, ip, app_type, LimitOf(app_type, is_premium),
                     Get(usage[day][ip], app_type, 0))

\* the usage after the call and what the call did: returned (200) or raised
\* HTTPException(429)
check_rate_limit(usage, day, ip, app_type, is_premium) ==
    RateLimitCount(UsageForClient(UsageForDay(usage, day), day, ip),
                   day, ip, app_type, is_premium)

\* what the call returned or raised, without the usage
ResultOf(limit) ==
    IF limit.status_code = 429
    THEN [status_code |-> 429, limit |-> limit.limit]
    ELSE [status_code |-> 200, used |-> limit.used, limit |-> limit.limit,
          remaining |-> limit.remaining]

\* one more accepted call without the premium key
CountAccepted(accepted, ip, app_type, is_premium, limit) ==
    IF limit.status_code = 200 /\ ~is_premium
    THEN (<<ip, app_type>> :> (Get(accepted, <<ip, app_type>>, 0) + 1)) @@ accepted
    ELSE accepted

\* a handler calls check_rate_limit(ip, app_type, is_premium): daily_usage
\* is what the call leaves, and the call is recorded
RateLimited(ip, app_type, is_premium, limit) ==
    /\ daily_usage' = limit.daily_usage
    /\ rateCall' = [day |-> today, ip |-> ip, app_type |-> app_type,
                    is_premium |-> is_premium, before |-> daily_usage,
                    result |-> ResultOf(limit)]
    /\ acceptedNormal' = CountAccepted(acceptedNormal, ip, app_type, is_premium, limit)

(***************************************************************************)
(* The decision scorer: analyze_n2b_decision.  A str is the sequence of    *)
(* its characters; every Hangul syllable is one character and is written   *)
(* here by its romanisation, a blank by "_".                               *)
(***************************************************************************)
\* kw in s
Contains(s, kw) ==
    \E i \in 1 .. (Len(s) - Len(kw) + 1) : SubSeq(s, i, i + Len(kw) - 1) = kw

\* any(kw in s for kw in keywords)
ContainsAny(s, keywords) == \E k \in DOMAIN keywords : Contains(s, keywords[k])

strength_keywords ==
    [jaeryo  |-> << <<"geo", "rae", "cheo">>,    \* 재료: 거래처
                    <<"jik", "geo", "rae">>,     \*       직거래
                    <<"ja", "jae">>,             \*       자재
                    <<"jae", "ryo">> >>,         \*       재료
     inryeok |-> << <<"jik", "yeong">>,          \* 인력: 직영
                    <<"suk", "ryeon">>,          \*       숙련
                    <<"in", "ryeok">>,           \*       인력
                    <<"no", "mu">> >>,           \*       노무
     jangbi  |-> << <<"ja", "ga">>,              \* 장비: 자가
                    <<"jang", "bi">>,            \*       장비
                    <<"bo", "yu">> >>]           \*       보유

\* 미경험, 부족, 없음, 처음
weakness_keywords ==
    << <<"mi", "gyeong", "heom">>, <<"bu", "jok">>, <<"eop", "eum">>,
       <<"cheo", "eum">> >>

\* ((base_price - estimated_cost) / base_price * 100) if base_price > 0 else 0
N2BBubbleRate(base_price, estimated_cost) ==
    IF base_price > 0
    THEN DMul(DDivInt(DFromInt(base_price - estimated_cost), base_price),
              DFromInt(100))
    ELSE DZero

\* (potential_profit / estimated_cost * 100) if estimated_cost > 0 else 0
ProfitRate(base_price, estimated_cost) ==
    IF estimated_cost > 0
    THEN DMul(DDivInt(DFromInt(base_price - estimated_cost), estimated_cost),
              DFromInt(100))
    ELSE DZero

AtLeast(x, n) == DGeq(x, DFromInt(n))

\* the bubble rate's points, 0 to 30
BubblePoints(bubble_rate) ==
    IF AtLeast(bubble_rate, 25) THEN 30
    ELSE IF AtLeast(bubble_rate, 20) THEN 25
    ELSE IF AtLeast(bubble_rate, 15) THEN 20
    ELSE IF AtLeast(bubble_rate, 10) THEN 15
    ELSE IF AtLeast(bubble_rate, 5) THEN 10
    ELSE 0

\* the profit rate's points, -10 to 20
\* a larger penalty for a profit rate below min_profit_rate - 5
ProfitPoints_Penalty25(profit_rate, min_profit_rate) ==
    IF AtLeast(profit_rate, min_profit_rate + 10) THEN 20
    ELSE IF AtLeast(profit_rate, min_profit_rate + 5) THEN 15
    ELSE IF AtLeast(profit_rate, min_profit_rate) THEN 10
    ELSE IF AtLeast(profit_rate, min_profit_rate - 5) THEN 5
    ELSE -25

ProfitPoints(profit_rate, min_profit_rate) ==
    IF AtLeast(profit_rate, min_profit_rate + 10) THEN 20
    ELSE IF AtLeast(profit_rate, min_profit_rate + 5) THEN 15
    ELSE IF AtLeast(profit_rate, min_profit_rate) THEN 10
    ELSE IF AtLeast(profit_rate, min_profit_rate - 5) THEN 5
    ELSE -10

\* 5 points for a strength that holds a keyword of any group
StrengthPoints_OncePerPhrase(strength) ==
    IF \/ ContainsAny(strength, strength_keywords.jaeryo)
       \/ ContainsAny(strength, strength_keywords.inryeok)
       \/ ContainsAny(strength, strength_keywords.jangbi)
    THEN 5 ELSE 0

\* the inner loop over strength_keywords.items() for one strength
StrengthPoints(strength) ==
    (IF ContainsAny(strength, strength_keywords.jaeryo) THEN 5 ELSE 0)
    + (IF ContainsAny(strength, strength_keywords.inryeok) THEN 5 ELSE 0)
    + (IF ContainsAny(strength, strength_keywords.jangbi) THEN 5 ELSE 0)

WeaknessPoints(weakness) ==
    IF ContainsAny(weakness, weakness_keywords) THEN -5 ELSE 0

RECURSIVE SumStrengths(_, _)
SumStrengths(company_strength, i) ==
    IF i > Len(company_strength) THEN 0
    ELSE StrengthPoints(company_strength[i]) + SumStrengths(company_strength, i + 1)

RECURSIVE SumWeaknesses(_, _)
SumWeaknesses(company_weakness, i) ==
    IF i > Len(company_weakness) THEN 0
    ELSE WeaknessPoints(company_weakness[i]) + SumWeaknesses(company_weakness, i + 1)

\* the score before it is limited to the range
RawScore(req, bubble_rate, profit_rate) ==
    50 + BubblePoints(bubble_rate) + ProfitPoints(profit_rate, req.min_profit_rate)
       + SumStrengths(req.company_strength, 1)
       + SumWeaknesses(req.company_weakness, 1)

ClampScore_Unclamped(score) == score

\* max(0, min(100, score))
ClampScore(score) ==
    IF (IF score < 100 THEN score ELSE 100) > 0
    THEN (IF score < 100 THEN score ELSE 100)
    ELSE 0

\* 적극 참여, 참여 권장, 조건부 참여, 신중 검토, 불참 권장
DecisionOf(score) ==
    IF score >= 75 THEN "jeokgeuk chamyeo"
    ELSE IF score >= 60 THEN "chamyeo gwonjang"
    ELSE IF score >= 45 THEN "jogeonbu chamyeo"
    ELSE IF score >= 30 THEN "sinjung geomto"
    ELSE "bulcham gwonjang"

\* the three sentences of the analysis, by the choices made in them
N2BText(req, bubble_rate, profit_rate) ==
    [base_price |-> req.base_price,
     estimated_cost |-> req.estimated_cost,
     bubble_enough |-> AtLeast(bubble_rate, 15),
     worth_joining |-> AtLeast(profit_rate, req.min_profit_rate)]

Risks(req, bubble_rate, profit_rate) ==
    (IF ~AtLeast(bubble_rate, 10) THEN <<"low bubble rate">> ELSE <<>>)
    \o (IF ~AtLeast(profit_rate, 5) THEN <<"low profit rate">> ELSE <<>>)
    \o (IF req.company_strength = <<>> THEN <<"strengths unknown">> ELSE <<>>)

\* company_strength[:2]
FirstTwo(s) == SubSeq(s, 1, IF Len(s) < 2 THEN Len(s) ELSE 2)

Opportunities(req, bubble_rate) ==
    (IF AtLeast(bubble_rate, 20) THEN <<"high bubble rate">> ELSE <<>>)
    \o (IF req.company_strength # <<>>
        THEN << <<"use strengths", FirstTwo(req.company_strength)>> >>
        ELSE <<>>)

DecisionDict(req, bubble_rate, profit_rate, score) ==
    [decision |-> DecisionOf(score),
     score |-> score,
     n2b |-> N2BText(req, bubble_rate, profit_rate),
     analysis |-> [base_price |-> req.base_price,
                   estimated_cost |-> req.estimated_cost,
                   bubble_rate |-> DRoundTenths(bubble_rate),
                   potential_profit |-> req.base_price - req.estimated_cost,
                   profit_rate |-> DRoundTenths(profit_rate),
                   min_profit_rate |-> req.min_profit_rate],
     risks |-> Risks(req, bubble_rate, profit_rate),
     opportunities |-> Opportunities(req, bubble_rate)]

DecisionFromRates(req, bubble_rate, profit_rate) ==
    DecisionDict(req, bubble_rate, profit_rate,
                 ClampScore(RawScore(req, bubble_rate, profit_rate)))

analyze_n2b_decision(req) ==
    DecisionFromRates(req, N2BBubbleRate(req.base_price, req.estimated_cost),
                      ProfitRate(req.base_price, req.estimated_cost))

(***************************************************************************)
(* Requests to the scorer.  POST /api/n2b-decision carries the two lists   *)
(* and counts against the daily limit; GET /api/quick-decision has neither.*)
(***************************************************************************)
MaxPhrases == 10

RECURSIVE Repeat(_, _)
Repeat(phrase, n) == IF n = 0 THEN <<>> ELSE <<phrase>> \o Repeat(phrase, n - 1)

StrengthPhrases ==
    { <<"ja", "jae", "_", "jik", "geo", "rae">>,                \* 자재 직거래
      <<"ja", "ga", "jang", "bi", "suk", "ryeon", "ja", "jae">>, \* 자가장비숙련자재
      <<"seong", "sil", "_", "si", "gong">>,                     \* 성실 시공
      <<>> }

WeaknessPhrases ==
    { <<"gyeong", "heom", "_", "bu", "jok">>,                    \* 경험 부족
      <<"mi", "gyeong", "heom", "_", "cheo", "eum">>,            \* 미경험 처음
      <<"won", "geo", "ri">> }                                   \* 원거리

ListLengths == {1, MaxPhrases}

StrengthLists ==
    {<<>>}
    \cup { Repeat(p, n) : p \in StrengthPhrases, n \in ListLengths }
    \cup { << <<"jik", "yeong", "_", "in", "ryeok">>,             \* 직영 인력
               <<"seong", "sil">>,                                \* 성실
               <<"jang", "bi", "_", "bo", "yu">> >> }             \* 장비 보유

WeaknessLists ==
    {<<>>}
    \cup { Repeat(p, n) : p \in WeaknessPhrases, n \in ListLengths }
    \cup { << <<"won", "geo", "ri">>,                             \* 원거리
               <<"in", "ryeok", "_", "eop", "eum">> >> }          \* 인력 없음

DecisionBasePrices == {0, 1000, 1000000000}
EstimatedCosts == {-100, 0, 700, 750, 850, 900, 950, 1000, 1200, 887500000}
MinProfitRates == {0, 10, 30}

Clients == {"10.0.0.1"}

N2BDecisionRequests ==
    [endpoint : {"POST /api/n2b-decision"},
     ip : Clients,
     is_premium : {FALSE},
     base_price : DecisionBasePrices,
     estimated_cost : EstimatedCosts,
     work_type : {"gita"},
     min_profit_rate : MinProfitRates,
     company_strength : StrengthLists,
     company_weakness : WeaknessLists]

QuickDecisionRequests ==
    [endpoint : {"GET /api/quick-decision"},
     base_price : DecisionBasePrices,
     estimated_cost : EstimatedCosts,
     work_type : {"gita"},
     min_profit_rate : MinProfitRates]

DecisionRequests == N2BDecisionRequests \cup QuickDecisionRequests

\* the program has just started and one request to the scorer arrives
InitDecision ==
    /\ today = 1
    /\ daily_usage = EmptyUsage
    /\ costRequest = NoRequest
    /\ costResult = NoResult
    /\ decisionRequest \in DecisionRequests
    /\ decisionResponse = NoResult
    /\ matchRequest = NoRequest
    /\ matchResponse = NoResult
    /\ NoRateCalls
    /\ NoReport

\* what n2b_decision does once check_rate_limit has returned or raised
N2BResponse(req, limit) ==
    IF limit.status_code = 429
    THEN [status_code |-> 429, detail |-> limit.limit]
    ELSE [status_code |-> 200, body |-> analyze_n2b_decision(req)]

\* POST /api/n2b-decision
n2b_decision ==
    /\ decisionRequest # NoRequest
    /\ decisionRequest.endpoint = "POST /api/n2b-decision"
    /\ decisionResponse = NoResult
    /\ LET limit == check_rate_limit(daily_usage, today, decisionRequest.ip,
                                     "cost", decisionRequest.is_premium)
       IN /\ RateLimited(decisionRequest.ip, "cost", decisionRequest.is_premium, limit)
          /\ decisionResponse' = N2BResponse(decisionRequest, limit)
    /\ UNCHANGED <<today, costRequest, costResult, decisionRequest,
                   matchRequest, matchResponse, rateResponse, reportVars>>

\* company_strength and company_weakness take their default, []
WithDefaultLists(req) ==
    [base_price |-> req.base_price,
     estimated_cost |-> req.estimated_cost,
     work_type |-> req.work_type,
     min_profit_rate |-> req.min_profit_rate,
     company_strength |-> <<>>,
     company_weakness |-> <<>>]

\* GET /api/quick-decision
quick_decision ==
    /\ decisionRequest # NoRequest
    /\ decisionRequest.endpoint = "GET /api/quick-decision"
    /\ decisionResponse = NoResult
    /\ decisionResponse' =
           [status_code |-> 200,
            body |-> analyze_n2b_decision(WithDefaultLists(decisionRequest))]
    /\ UNCHANGED <<today, daily_usage, costRequest, costResult, decisionRequest,
                   matchRequest, matchResponse, rateVars, reportVars>>

NextDecision == n2b_decision \/ quick_decision

SpecDecision == InitDecision /\ [][NextDecision]_vars

(***************************************************************************)
(* Values of the matcher.  A Python int is a sign and a magnitude of any   *)
(* size (the profiles' prices do not fit 32 bits).  What the remote        *)
(* service's JSON holds in a price field is null, a number or a string; a  *)
(* string is the sequence of its characters.                               *)
(***************************************************************************)
PyInt(neg, m) == [neg |-> neg /\ m # <<>>, m |-> m]

IntZero == PyInt(FALSE, <<>>)

\* millions * 1,000,000 + units
Won(millions, units) ==
    PyInt(FALSE, BAdd(BMul(BFromNat(millions), BFromNat(1000000)), BFromNat(units)))

\* a <= b
IntLeq(a, b) ==
    IF a.neg # b.neg THEN a.neg
    ELSE IF a.neg THEN BCmp(a.m, b.m) >= 0
    ELSE BCmp(a.m, b.m) <= 0

JNull == [json |-> "null", int |-> IntZero, str |-> <<>>]
JInt(i) == [json |-> "int", int |-> i, str |-> <<>>]
JStr(s) == [json |-> "str", int |-> IntZero, str |-> s]

\* bool(v)
Truthy(v) ==
    IF v.json = "null" THEN FALSE
    ELSE IF v.json = "int" THEN v.int # IntZero
    ELSE v.str # <<>>

\* a or b
PyOr(a, b) == IF Truthy(a) THEN a ELSE b

DigitChars == <<"0", "1", "2", "3", "4", "5", "6", "7", "8", "9">>

IsDigit(c) == \E d \in DOMAIN DigitChars : DigitChars[d] = c

DigitOf(c) == (CHOOSE d \in DOMAIN DigitChars : DigitChars[d] = c) - 1

HasSign(s) == s # <<>> /\ s[1] \in {"-", "+"}

Unsigned(s) == IF HasSign(s) THEN Tail(s) ELSE s

\* int(s) accepts s: an optional sign and then decimal digits only
IsIntLiteral(s) ==
    /\ Unsigned(s) # <<>>
    /\ \A i \in DOMAIN Unsigned(s) : IsDigit(Unsigned(s)[i])

RECURSIVE ParseDigits(_, _, _)
ParseDigits(digits, i, acc) ==
    IF i > Len(digits) THEN acc
    ELSE ParseDigits(digits, i + 1,
                     BAdd(BMulSmall(acc, 10), BFromNat(DigitOf(digits[i]))))

IntOfStr(s) == PyInt(HasSign(s) /\ s[1] = "-", ParseDigits(Unsigned(s), 1, <<>>))

\* int(v) returns, it does not raise ValueError
CanInt(v) == v.json = "int" \/ (v.json = "str" /\ IsIntLiteral(v.str))

\* int(v)
IntOf(v) == IF v.json = "int" THEN v.int ELSE IntOfStr(v.str)

(***************************************************************************)
(* CompanyProfile and SAMPLE_PROFILES.                                     *)
(***************************************************************************)
Profile(company_name, work_types, regions, min_price, max_price) ==
    [company_name |-> company_name, work_types |-> work_types,
     regions |-> regions, min_price |-> min_price, max_price |-> max_price]

Seoul == <<"seo", "ul">>                \* 서울
Gyeonggi == <<"gyeong", "gi">>          \* 경기
Incheon == <<"in", "cheon">>            \* 인천
Doro == <<"do", "ro">>                  \* 도로

SAMPLE_PROFILES ==
    [doropojang |->                     \* 도로포장전문
        Profile("hangil doro",
                <<Doro, <<"po", "jang">>, <<"a", "seu", "pal", "teu">>,
                  <<"a", "seu", "kon">> >>,
                <<Seoul, Gyeonggi, Incheon>>,
                Won(50, 0), Won(2000, 0)),
     jonghapgeonseol |->                \* 종합건설중견
        Profile("daehan jonghap geonseol",
                <<<<"geon", "chuk">>, <<"to", "mok">>, Doro,
                  <<"sang", "ha", "su", "do">> >>,
                <<Seoul, Gyeonggi, Incheon, <<"chung", "nam">>,
                  <<"chung", "buk">> >>,
                Won(500, 0), Won(50000, 0)),
     jeongiseolbi |->                   \* 전기설비전문
        Profile("balgeun jeongi",
                <<<<"jeon", "gi">>, <<"tong", "sin">>, <<"so", "bang">>,
                  <<"seol", "bi">> >>,
                <<Seoul, Gyeonggi>>,
                Won(30, 0), Won(1000, 0))]

\* the defaults of CompanyProfile: min_price = 0, max_price = 10000000000
DefaultMinPrice == IntZero
DefaultMaxPrice == Won(10000, 0)

(***************************************************************************)
(* fetch_bid_announcements: what it makes of the remote service's answer.  *)
(* Of an item's fields the model keeps those the matchers read, and the    *)
(* notice number.                                                          *)
(***************************************************************************)
\* bid = { ... item.get(key, default) ... }
BidOfItem(item, bid_type) ==
    [bid_no |-> Get(item, "bidNtceNo", <<>>),
     bid_name |-> Get(item, "bidNtceNm", <<>>),
     agency |-> Get(item, "ntceInsttNm", <<>>),
     estimated_price |-> Get(item, "presmptPrce", JInt(IntZero)),
     base_price |-> Get(item, "asignBdgtAmt", JInt(IntZero)),
     region |-> Get(item, "ntceInsttOfclAddr", <<>>),
     bid_type |-> bid_type]

\* the remote answer is the items of a 200 response, or a failure of any
\* kind, which the except clause turns into []
fetch_bid_announcements(remote, bid_type) ==
    IF remote.failed THEN <<>>
    ELSE [i \in DOMAIN remote.items |-> BidOfItem(remote.items[i], bid_type)]

(***************************************************************************)
(* The matching loop, the same in match_bids and in quick_match.           *)
(***************************************************************************)
\* price = bid.get("base_price", 0) or bid.get("estimated_price", 0)
PriceOf(bid) == PyOr(bid.base_price, bid.estimated_price)

InRange_LowerOnly(profile, price) == IntLeq(profile.min_price, price)

\* profile.min_price <= price <= profile.max_price
InRange(profile, price) ==
    IntLeq(profile.min_price, price) /\ IntLeq(price, profile.max_price)

\* the first keyword that is in s, by its position in keywords, or 0
FirstIn(keywords, s) ==
    IF \E k \in DOMAIN keywords : Contains(s, keywords[k])
    THEN CHOOSE k \in DOMAIN keywords :
             /\ Contains(s, keywords[k])
             /\ \A j \in 1 .. (k - 1) : ~Contains(s, keywords[j])
    ELSE 0

\* region = bid.get("region", "") or bid.get("agency", "")
RegionOf(bid) == IF bid.region # <<>> THEN bid.region ELSE bid.agency

WorkTypePoints(profile, bid) ==
    IF FirstIn(profile.work_types, bid.bid_name) # 0 THEN 25 ELSE 0

WorkTypeReason(profile, bid) ==
    IF FirstIn(profile.work_types, bid.bid_name) # 0
    THEN << <<"work type", profile.work_types[FirstIn(profile.work_types, bid.bid_name)]>> >>
    ELSE <<>>

RegionPoints(profile, bid) ==
    IF FirstIn(profile.regions, RegionOf(bid)) # 0 THEN 20 ELSE 0

RegionReason(profile, bid) ==
    IF FirstIn(profile.regions, RegionOf(bid)) # 0
    THEN << <<"region", profile.regions[FirstIn(profile.regions, RegionOf(bid))]>> >>
    ELSE <<>>

\* the rest of the loop body after the price filter: the bid with its
\* match_score and match_reasons
Scored(profile, bid, score, reasons) ==
    [bid_no |-> bid.bid_no,
     bid_name |-> bid.bid_name,
     agency |-> bid.agency,
     estimated_price |-> bid.estimated_price,
     base_price |-> bid.base_price,
     region |-> bid.region,
     bid_type |-> bid.bid_type,
     match_score |-> score + WorkTypePoints(profile, bid) + RegionPoints(profile, bid),
     match_reasons |-> reasons \o WorkTypeReason(profile, bid) \o RegionReason(profile, bid)]

\* one pass of the loop body (a reason is its kind and the keyword found): "raise" when int(price) raises ValueError,
\* "continue" when the price filter skips the bid, else the scored bid
MatchOne(profile, bid) ==
    IF Truthy(PriceOf(bid))
    THEN IF ~CanInt(PriceOf(bid))
         THEN [step |-> "raise"]
         ELSE IF InRange(profile, IntOf(PriceOf(bid)))
         THEN [step |-> "scored",
               bid |-> Scored(profile, bid, 30, << <<"price">> >>)]
         ELSE [step |-> "continue"]
    ELSE [step |-> "scored", bid |-> Scored(profile, bid, 0, <<>>)]

\* if score >= 25: matched.append(bid)
Appended(matched, bid) ==
    IF bid.match_score >= 25 THEN Append(matched, bid) ELSE matched

RECURSIVE MatchLoop(_, _, _, _)
MatchStep(profile, bids, i, matched, one) ==
    IF one.step = "raise" THEN [raised |-> TRUE, matched |-> <<>>]
    ELSE IF one.step = "continue" THEN MatchLoop(profile, bids, i + 1, matched)
    ELSE MatchLoop(profile, bids, i + 1, Appended(matched, one.bid))

\* for bid in bids: ...
MatchLoop(profile, bids, i, matched) ==
    IF i > Len(bids) THEN [raised |-> FALSE, matched |-> matched]
    ELSE MatchStep(profile, bids, i, matched, MatchOne(profile, bids[i]))

\* x.get("match_score", 0)
SortKey(bid) == Get(bid, "match_score", 0)

\* where a stable descending sort puts bid among the sorted ones: behind the
\* last whose key is not smaller
RECURSIVE InsertPosition(_, _, _)
InsertPosition(sorted, bid, i) ==
    IF i > Len(sorted) THEN i
    ELSE IF SortKey(sorted[i]) < SortKey(bid) THEN i
    ELSE InsertPosition(sorted, bid, i + 1)

InsertAt(sorted, bid, i) ==
    SubSeq(sorted, 1, i - 1) \o <<bid>> \o SubSeq(sorted, i, Len(sorted))

RECURSIVE SortFrom(_, _, _)
SortFrom(matched, i, sorted) ==
    IF i > Len(matched) THEN sorted
    ELSE SortFrom(matched, i + 1,
                  InsertAt(sorted, matched[i], InsertPosition(sorted, matched[i], 1)))

Reversed(s) == [i \in DOMAIN s |-> s[Len(s) + 1 - i]]

\* sorted ascending, then reversed
SortByScore_AscendingReversed(matched) == SortFrom(Reversed(matched), 1, <<>>)

\* matched.sort(key=lambda x: x.get("match_score", 0), reverse=True):
\* list.sort is stable, with reverse=True too
SortByScore(matched) == SortFrom(matched, 1, <<>>)

(***************************************************************************)
(* Requests to the matchers.  POST /api/bid-match carries a profile or     *)
(* none and counts against the daily limit; GET /api/quick-match/{name}    *)
(* names a sample profile.  The request is kept together with the answer   *)
(* the remote service gives to the lookup made for it.                     *)
(***************************************************************************)
MaxBids == 3
LongFetch == 22

\* 시도 도로 포장 공사, 청사 전기 설비, 청소 용역
ItemNames ==
    { [keys |-> {"bidNtceNm"},
       bidNtceNm |-> <<"si", "do", "_", "do", "ro", "_", "po", "jang", "_", "gong", "sa">>],
      [keys |-> {"bidNtceNm"},
       bidNtceNm |-> <<"cheong", "sa", "_", "jeon", "gi", "_", "seol", "bi">>],
      [keys |-> {"bidNtceNm"},
       bidNtceNm |-> <<"cheong", "so", "_", "yong", "yeok">>] }

\* the address and the name of the agency: 서울특별시 중구 / 조달청,
\* (none) / 경기도청, 부산광역시 / 서울지방조달청
ItemRegions ==
    { [keys |-> {"ntceInsttOfclAddr", "ntceInsttNm"},
       ntceInsttOfclAddr |-> <<"seo", "ul", "teuk", "byeol", "si", "_", "jung", "gu">>,
       ntceInsttNm |-> <<"jo", "dal", "cheong">>],
      [keys |-> {"ntceInsttNm"},
       ntceInsttOfclAddr |-> <<>>,
       ntceInsttNm |-> <<"gyeong", "gi", "do", "cheong">>],
      [keys |-> {"ntceInsttOfclAddr", "ntceInsttNm"},
       ntceInsttOfclAddr |-> <<"bu", "san", "gwang", "yeok", "si">>,
       ntceInsttNm |-> <<"seo", "ul", "ji", "bang", "jo", "dal", "cheong">>] }

Prices(keys, asignBdgtAmt, presmptPrce) ==
    [keys |-> keys, asignBdgtAmt |-> asignBdgtAmt, presmptPrce |-> presmptPrce]

BothPrices == {"asignBdgtAmt", "presmptPrce"}

Chars100000000 == <<"1", "0", "0", "0", "0", "0", "0", "0", "0">>
Chars700000000 == <<"7", "0", "0", "0", "0", "0", "0", "0", "0">>
Chars2000000001 == <<"2", "0", "0", "0", "0", "0", "0", "0", "0", "1">>

\* the budget (asignBdgtAmt, the bid's base_price) and the presumed price
\* (presmptPrce, its estimated_price) of an item
ItemPrices ==
    { Prices({}, JNull, JNull),
      Prices(BothPrices, JInt(IntZero), JNull),
      Prices(BothPrices, JStr(<<>>), JStr(<<>>)),
      Prices(BothPrices, JStr(<<"0">>), JStr(<<>>)),
      Prices(BothPrices, JStr(<<"0">>), JStr(Chars700000000)),
      Prices(BothPrices, JInt(IntZero), JInt(Won(700, 0))),
      Prices({"asignBdgtAmt"}, JStr(Chars100000000), JNull),
      Prices(BothPrices, JInt(Won(49, 999999)), JInt(Won(700, 0))),
      Prices(BothPrices, JInt(Won(50, 0)), JNull),
      Prices(BothPrices, JInt(Won(2000, 0)), JInt(IntZero)),
      Prices({"presmptPrce"}, JNull, JStr(Chars2000000001)),
      Prices(BothPrices, JInt(Won(60000, 0)), JInt(Won(700, 0))),
      Prices(BothPrices, JStr(<<"-", "5">>), JStr(<<>>)),
      Prices(BothPrices, JStr(<<"1", ".", "5", "e", "8">>), JStr(Chars100000000)) }

ItemFields(name, region, prices) ==
    [bidNtceNm |-> name.bidNtceNm,
     ntceInsttOfclAddr |-> region.ntceInsttOfclAddr,
     ntceInsttNm |-> region.ntceInsttNm,
     asignBdgtAmt |-> prices.asignBdgtAmt,
     presmptPrce |-> prices.presmptPrce]

\* a remote item less its notice number: the keys it has and their values
ItemTemplate(name, region, prices) ==
    [keys |-> name.keys \cup region.keys \cup prices.keys,
     fields |-> ItemFields(name, region, prices)]

ItemTemplates ==
    { ItemTemplate(n, r, p) : n \in ItemNames, r \in ItemRegions, p \in ItemPrices }

\* the items that the longer answers are made of: priced in and out of the
\* range of the first sample profile or unpriced, named for it or not
MixTemplates ==
    { ItemTemplate(n, r, p) :
        n \in ItemNames,
        r \in { r \in ItemRegions : r.keys = {"ntceInsttNm"} },
        p \in { Prices({"asignBdgtAmt"}, JStr(Chars100000000), JNull),
                Prices({}, JNull, JNull) } }

\* the item of a template, as the i-th of the answer
Item(template, i) ==
    [k \in template.keys \cup {"bidNtceNo"} |->
        IF k = "bidNtceNo" THEN i ELSE template.fields[k]]

Items(templates) == [i \in DOMAIN templates |-> Item(templates[i], i)]

RECURSIVE SeqsOf(_, _)
SeqsOf(S, n) ==
    IF n = 0 THEN {<<>>}
    ELSE { Append(s, x) : s \in SeqsOf(S, n - 1), x \in S }

\* more items than a response lists: a priced one at every third place, from
\* the second on, among unpriced ones, all of them named for the first profile
LongTemplates ==
    [i \in 1 .. LongFetch |->
        IF i % 3 = 2
        THEN ItemTemplate(CHOOSE n \in ItemNames : n.bidNtceNm[1] = "si",
                          CHOOSE r \in ItemRegions : r.keys = {"ntceInsttNm"},
                          Prices({"asignBdgtAmt"}, JStr(Chars100000000), JNull))
        ELSE ItemTemplate(CHOOSE n \in ItemNames : n.bidNtceNm[1] = "si",
                          CHOOSE r \in ItemRegions : r.keys = {"ntceInsttNm"},
                          Prices({}, JNull, JNull))]

RemoteAnswers ==
    {[failed |-> TRUE, items |-> <<>>]}
    \cup { [failed |-> FALSE, items |-> Items(t)] :
            t \in SeqsOf(ItemTemplates, 1) \cup {<<>>, LongTemplates}
                  \cup UNION { SeqsOf(MixTemplates, n) : n \in 2 .. MaxBids } }

NoProfile == [none |-> TRUE]

Busan == <<"bu", "san">>                \* 부산

\* profiles a caller sends: defaults but for the keywords, all defaults, and
\* a copy of the first sample
CallerProfiles ==
    { Profile("", <<Doro>>, <<Busan>>, DefaultMinPrice, DefaultMaxPrice),
      Profile("", <<>>, <<>>, DefaultMinPrice, DefaultMaxPrice),
      SAMPLE_PROFILES.doropojang }

Keywords == {<<>>, <<"gyo", "ryang">>}  \* none, 교량

BidMatchRequests ==
    [endpoint : {"POST /api/bid-match"},
     ip : Clients,
     is_premium : {FALSE},
     keyword : Keywords,
     bid_type : {"gongsa"},
     profile : CallerProfiles \cup {NoProfile},
     remote : RemoteAnswers]

QuickMatchRequests ==
    [endpoint : {"GET /api/quick-match"},
     profile_name : DOMAIN SAMPLE_PROFILES \cup {"unknown"},
     keyword : Keywords,
     bid_type : {"gongsa"},
     remote : RemoteAnswers]

MatchRequests == BidMatchRequests \cup QuickMatchRequests

\* the program has just started and one request to a matcher arrives
InitMatch ==
    /\ today = 1
    /\ daily_usage = EmptyUsage
    /\ costRequest = NoRequest
    /\ costResult = NoResult
    /\ decisionRequest = NoRequest
    /\ decisionResponse = NoResult
    /\ matchRequest \in MatchRequests
    /\ matchResponse = NoResult
    /\ NoRateCalls
    /\ NoReport

\* the response of match_bids to a profile, or the failure of the request
\* when the loop raised
BidMatchBody(req, bids, loop) ==
    IF loop.raised
    THEN [status_code |-> 500]
    ELSE [status_code |-> 200,
          body |-> [success |-> TRUE,
                    matched |-> SortByScore(loop.matched),
                    total |-> Len(bids),
                    filtered |-> Len(loop.matched),
                    profile |-> [company |-> req.profile.company_name,
                                 work_types |-> req.profile.work_types,
                                 regions |-> req.profile.regions,
                                 min_price |-> req.profile.min_price,
                                 max_price |-> req.profile.max_price]]]

\* match_bids from the lookup on
BidMatchOf(req, bids) ==
    IF req.profile = NoProfile
    THEN [status_code |-> 200,
          body |-> [success |-> TRUE, matched |-> bids, total |-> Len(bids),
                    filtered |-> 0, profile |-> NoProfile]]
    ELSE BidMatchBody(req, bids, MatchLoop(req.profile, bids, 1, <<>>))

\* what match_bids does once check_rate_limit has returned or raised
BidMatchResponse(req, limit) ==
    IF limit.status_code = 429
    THEN [status_code |-> 429, detail |-> limit.limit]
    ELSE BidMatchOf(req, fetch_bid_announcements(req.remote, req.bid_type))

\* POST /api/bid-match
match_bids ==
    /\ matchRequest # NoRequest
    /\ matchRequest.endpoint = "POST /api/bid-match"
    /\ matchResponse = NoResult
    /\ LET limit == check_rate_limit(daily_usage, today, matchRequest.ip,
                                     "bid", matchRequest.is_premium)
       IN /\ RateLimited(matchRequest.ip, "bid", matchRequest.is_premium, limit)
          /\ matchResponse' = BidMatchResponse(matchRequest, limit)
    /\ UNCHANGED <<today, costRequest, costResult, decisionRequest,
                   decisionResponse, matchRequest, rateResponse, reportVars>>

\* keyword if keyword else profile.work_types[0] if profile.work_types else ""
SearchKeyword(keyword, profile) ==
    IF keyword # <<>> THEN keyword
    ELSE IF profile.work_types # <<>> THEN profile.work_types[1]
    ELSE <<>>

\* matched[:20]
First20(matched) == SubSeq(matched, 1, IF Len(matched) < 20 THEN Len(matched) ELSE 20)

QuickMatchBody(req, profile, bids, loop) ==
    IF loop.raised
    THEN [status_code |-> 500]
    ELSE [status_code |-> 200,
          body |-> [success |-> TRUE,
                    profile_name |-> req.profile_name,
                    company |-> profile.company_name,
                    search_keyword |-> SearchKeyword(req.keyword, profile),
                    total_found |-> Len(bids),
                    matched_count |-> Len(loop.matched),
                    matched |-> First20(SortByScore(loop.matched))]]

QuickMatchOf(req, profile, bids) ==
    QuickMatchBody(req, profile, bids, MatchLoop(profile, bids, 1, <<>>))

QuickMatchResponse(req) ==
    IF req.profile_name \notin DOMAIN SAMPLE_PROFILES
    THEN [status_code |-> 404]
    ELSE QuickMatchOf(req, SAMPLE_PROFILES[req.profile_name],
                      fetch_bid_announcements(req.remote, req.bid_type))

\* GET /api/quick-match/{profile_name}
quick_match ==
    /\ matchRequest # NoRequest
    /\ matchRequest.endpoint = "GET /api/quick-match"
    /\ matchResponse = NoResult
    /\ matchResponse' = QuickMatchResponse(matchRequest)
    /\ UNCHANGED <<today, daily_usage, costRequest, costResult, decisionRequest,
                   decisionResponse, matchRequest, rateVars, reportVars>>

NextMatch == match_bids \/ quick_match

SpecMatch == InitMatch /\ [][NextMatch]_vars

(***************************************************************************)
(* The daily limit at work: two endpoints that call check_rate_limit,      *)
(* called again and again by two clients while the date changes.           *)
(***************************************************************************)
MaxDay == 2
MaxPriceSearches == 3

\* the clients of /api/bid-search, with and without the premium key, and the
\* client of /api/price-search
BidCallers == [ip : {"10.0.0.1"}, is_premium : BOOLEAN]
PriceCallers == [ip : {"10.0.0.2"}, is_premium : {FALSE}]

\* the lookup of /api/bid-search fails, or finds one announcement
SearchAnswers ==
    { [failed |-> TRUE, items |-> <<>>],
      [failed |-> FALSE,
       items |-> << [bidNtceNo |-> 1, bidNtceNm |-> <<"do", "ro">>,
                     asignBdgtAmt |-> JStr(Chars100000000)] >>] }

\* what a price lookup gets: no answer, an item with a price and one whose
\* price is not a number
PriceAnswers ==
    { [failed |-> TRUE, items |-> <<>>],
      [failed |-> FALSE, items |-> << [name |-> "cement", prc |-> JStr(<<"5", "0">>)] >>],
      [failed |-> FALSE, items |-> << [name |-> "cement", prc |-> JStr(<<"5", "0">>)],
                                      [name |-> "sand", prc |-> JStr(<<"-">>)] >>] }

\* {"name": ..., "price": int(item.get(key, 0)), ...}
PriceOfItem(item, key) ==
    [name |-> Get(item, "name", ""), price |-> IntOf(Get(item, key, JInt(IntZero)))]

\* the loop over the items inside try: an int() that raises ends in the
\* except clause, as every other failure does, and the result is []
PriceResults(remote, key) ==
    IF remote.failed THEN <<>>
    ELSE IF \E i \in DOMAIN remote.items :
                ~CanInt(Get(remote.items[i], key, JInt(IntZero)))
    THEN <<>>
    ELSE [i \in DOMAIN remote.items |-> PriceOfItem(remote.items[i], key)]

fetch_material_prices(remote) == PriceResults(remote, "prc")

fetch_market_prices(remote) == PriceResults(remote, "mrktPrc")

\* raise HTTPException(status_code=429, ...) reaches the client as a 429
TooManyRequests(limit) == [status_code |-> 429, detail |-> limit.limit]

SearchPricesBody(keyword, material_prices, market_prices) ==
    [keyword |-> keyword, material_prices |-> material_prices,
     market_prices |-> market_prices,
     total |-> Len(material_prices) + Len(market_prices)]

SearchPricesResponse(keyword, material, market, limit) ==
    IF limit.status_code = 429 THEN TooManyRequests(limit)
    ELSE [status_code |-> 200,
          body |-> SearchPricesBody(keyword, fetch_material_prices(material),
                                    fetch_market_prices(market))]

\* the calls of today that the client has had counted
UsedToday(ip, app_type) ==
    Get(Get(Get(daily_usage, today, <<>>), ip, ZeroCounters), app_type, 0)

\* POST /api/price-search
search_prices ==
    \E caller \in PriceCallers, material \in PriceAnswers :
        LET limit == check_rate_limit(daily_usage, today, caller.ip, "cost",
                                      caller.is_premium)
        IN /\ UsedToday(caller.ip, "cost") < MaxPriceSearches
           /\ RateLimited(caller.ip, "cost", caller.is_premium, limit)
           /\ rateResponse' = SearchPricesResponse("cement", material,
                                                   [failed |-> TRUE, items |-> <<>>],
                                                   limit)
           /\ UNCHANGED <<today, costRequest, costResult, decisionRequest,
                          decisionResponse, matchRequest, matchResponse,
                          reportVars>>

SearchBidsBody(keyword, bid_type, bids) ==
    [success |-> TRUE, count |-> Len(bids), keyword |-> keyword,
     bid_type |-> bid_type, bids |-> bids]

SearchBidsResponse(keyword, bid_type, remote, limit) ==
    IF limit.status_code = 429 THEN TooManyRequests(limit)
    ELSE [status_code |-> 200,
          body |-> SearchBidsBody(keyword, bid_type,
                                  fetch_bid_announcements(remote, bid_type))]

\* POST /api/bid-search
search_bids ==
    \E caller \in BidCallers, remote \in SearchAnswers :
        LET limit == check_rate_limit(daily_usage, today, caller.ip, "bid",
                                      caller.is_premium)
        IN /\ RateLimited(caller.ip, "bid", caller.is_premium, limit)
           /\ rateResponse' = SearchBidsResponse(Doro, "gongsa", remote, limit)
           /\ UNCHANGED <<today, costRequest, costResult, decisionRequest,
                          decisionResponse, matchRequest, matchResponse,
                          reportVars>>

\* midnight: date.today() is the next day, and nothing was accepted yet on it
NextDate ==
    /\ today < MaxDay
    /\ today' = today + 1
    /\ acceptedNormal' = <<>>
    /\ UNCHANGED <<daily_usage, costRequest, costResult, decisionRequest,
                   decisionResponse, matchRequest, matchResponse, rateCall,
                   rateResponse, reportVars>>

\* the program has just started
InitRate ==
    /\ today = 1
    /\ daily_usage = EmptyUsage
    /\ costRequest = NoRequest
    /\ costResult = NoResult
    /\ decisionRequest = NoRequest
    /\ decisionResponse = NoResult
    /\ matchRequest = NoRequest
    /\ matchResponse = NoResult
    /\ NoRateCalls
    /\ NoReport

NextRate == search_prices \/ search_bids \/ NextDate

SpecRate == InitRate /\ [][NextRate]_vars

(***************************************************************************)
(* The two reports of /api/full-analysis.  The GET handler calls           *)
(* calculate_rough_cost and analyze_n2b_decision; the POST handler has     *)
(* formulas and decision bands of its own.                                 *)
(***************************************************************************)
\* F(v), the value v being computed before F is applied to it: one statement
\* of a handler after the other
Computed(v, F(_)) == CHOOSE r \in { F(x) : x \in {v} } : TRUE

\* the float that round(x, 1) returned, from its number of tenths
TenthsFloat(tenths) == DDivInt(DFromInt(tenths), 10)

\* the arguments of the GET handler's call of analyze_n2b_decision
ReportDecisionArguments(req, estimated_cost) ==
    [base_price |-> req.base_price,
     estimated_cost |-> estimated_cost,
     work_type |-> req.work_type,
     min_profit_rate |-> req.min_profit_rate,
     company_strength |-> <<>>,
     company_weakness |-> <<>>]

\* strategy, by cost_result["거품률"]
Strategy(bubble_rate) ==
    IF bubble_rate >= 250 THEN "gonggyeokjeok tuchal"       \* 공격적 투찰
    ELSE IF bubble_rate >= 200 THEN "jeokjeong tuchal"      \* 적정 투찰
    ELSE IF bubble_rate >= 150 THEN "bosujeok tuchal"       \* 보수적 투찰
    ELSE "sinjung tuchal"                                   \* 신중 투찰

FullAnalysisBody(req, cost_result, decision_result) ==
    [summary |-> [base_price |-> req.base_price,
                  estimated_cost |-> cost_result.actual.total,
                  bubble_rate |-> cost_result.bubble_rate,
                  decision |-> decision_result.decision,
                  score |-> decision_result.score,
                  strategy |-> Strategy(cost_result.bubble_rate)],
     cost_analysis |-> cost_result,
     n2b_decision |-> decision_result,
     n2b |-> decision_result.n2b]

FullAnalysisFromCost(req, cost_result) ==
    Computed(analyze_n2b_decision(ReportDecisionArguments(req, cost_result.actual.total)),
             LAMBDA decision_result : FullAnalysisBody(req, cost_result, decision_result))

FullAnalysisResponse(req) ==
    [status_code |-> 200,
     body |-> Computed(calculate_rough_cost([base_price |-> req.base_price,
                                             work_type |-> req.work_type,
                                             discounts |-> req.discounts]),
                       LAMBDA cost_result : FullAnalysisFromCost(req, cost_result))]

\* indirect = int(actual_direct * 0.26 / 0.74)
PostIndirect(actual_direct) ==
    DTrunc(DDiv(DMul(DFromInt(actual_direct), DLit100(26)), DLit100(74)))

\* round((1 - actual_total / base_price) * 100, 1), in tenths; base_price # 0
PostBubbleRate(base_price, actual_total) ==
    DRoundTenths(DMul(DSub(DFromInt(1), DDivInt(DFromInt(actual_total), base_price)),
                      DFromInt(100)))

\* the decision and the score of the POST handler, by its bubble rate
PostDecision(bubble_rate) ==
    IF bubble_rate >= 200 THEN [decision |-> "jeokgeuk chamyeo", score |-> 95]
    ELSE IF bubble_rate >= 150 THEN [decision |-> "chamyeo gwonjang", score |-> 85]
    ELSE IF bubble_rate >= 100 THEN [decision |-> "jogeonbu chamyeo", score |-> 70]
    ELSE IF bubble_rate >= 50 THEN [decision |-> "sinjung geomto", score |-> 55]
    ELSE [decision |-> "chamyeo bulga", score |-> 30]          \* 참여 불가

\* round(100 - bubble_rate + min_profit_rate, 1), in tenths
PostRecommendRate(bubble_rate, min_profit_rate) ==
    DRoundTenths(DAdd(DSub(DFromInt(100), TenthsFloat(bubble_rate)),
                      DFromInt(min_profit_rate)))

\* int(base_price * recommend_rate / 100)
PostRecommendPrice(base_price, recommend_rate) ==
    DTrunc(DDivInt(DMul(DFromInt(base_price), TenthsFloat(recommend_rate)), 100))

\* round(expected_profit / recommend_price * 100, 1), in tenths;
\* recommend_price # 0
PostProfitRate(expected_profit, recommend_price) ==
    DRoundTenths(DMul(DDivInt(DFromInt(expected_profit), recommend_price),
                      DFromInt(100)))

\* an exception that no handler catches reaches the client as a 500
InternalServerError == [status_code |-> 500]

PostBody(req, actual_direct, indirect, bubble_rate, judged, recommend_rate, recommend_price) ==
    [bid_no |-> req.bid_no,
     summary |-> [base_price |-> req.base_price,
                  estimated_cost |-> actual_direct + indirect,
                  bubble_rate |-> bubble_rate,
                  decision |-> judged.decision,
                  score |-> judged.score],
     cost_analysis |-> [direct |-> actual_direct, indirect |-> indirect,
                        total |-> actual_direct + indirect,
                        savings |-> req.base_price - (actual_direct + indirect)],
     n2b_decision |-> [decision |-> judged.decision, score |-> judged.score,
                       bubble_rate |-> bubble_rate],
     strategy |-> [recommend_rate |-> recommend_rate,
                   recommend_price |-> recommend_price,
                   expected_profit |-> recommend_price - (actual_direct + indirect),
                   profit_rate |-> PostProfitRate(recommend_price - (actual_direct + indirect),
                                                  recommend_price)],
     n2b |-> [work_type |-> req.work_type, bubble_rate |-> bubble_rate,
              fit |-> bubble_rate >= 100, room |-> bubble_rate >= 150]]

\* expected_profit / recommend_price raises ZeroDivisionError for a
\* recommended price of 0
PostFromPrice(req, actual_direct, indirect, bubble_rate, recommend_rate, recommend_price) ==
    IF recommend_price = 0 THEN InternalServerError
    ELSE [status_code |-> 200,
          body |-> PostBody(req, actual_direct, indirect, bubble_rate,
                            PostDecision(bubble_rate), recommend_rate,
                            recommend_price)]

PostFromRate(req, actual_direct, indirect, bubble_rate, recommend_rate) ==
    Computed(PostRecommendPrice(req.base_price, recommend_rate),
             LAMBDA recommend_price :
                 PostFromPrice(req, actual_direct, indirect, bubble_rate,
                               recommend_rate, recommend_price))

PostFromBubble(req, actual_direct, indirect, bubble_rate) ==
    Computed(PostRecommendRate(bubble_rate, req.min_profit_rate),
             LAMBDA recommend_rate :
                 PostFromRate(req, actual_direct, indirect, bubble_rate,
                              recommend_rate))

\* actual_total / base_price raises ZeroDivisionError for a base price of 0
PostFromIndirect(req, actual_direct, indirect) ==
    IF req.base_price = 0 THEN InternalServerError
    ELSE Computed(PostBubbleRate(req.base_price, actual_direct + indirect),
                  LAMBDA bubble_rate :
                      PostFromBubble(req, actual_direct, indirect, bubble_rate))

PostFromDirect(req, actual_direct) ==
    Computed(PostIndirect(actual_direct),
             LAMBDA indirect : PostFromIndirect(req, actual_direct, indirect))

PostFullAnalysisResponse(req) ==
    Computed(ActualDirect(ActualParts(StandardCost(req.base_price,
                                                   RatiosOf(req.work_type),
                                                   EstimatedDirectCost(req.base_price)),
                                      req.discounts)),
             LAMBDA actual_direct : PostFromDirect(req, actual_direct))

ReportBasePrices == {0, 1, 10, 1000, 123456789, 1000000000}

ReportDiscounts ==
    { Discounts(0, 0, 0), Discounts(10, 15, 10), Discounts(50, 0, 25),
      Discounts(100, 100, 100) }

ReportRequests ==
    [endpoint : {"GET /api/full-analysis", "POST /api/full-analysis"},
     bid_no : {"20240101"},
     base_price : ReportBasePrices,
     work_type : {"doro", "gita", "unknown"},
     discounts : ReportDiscounts,
     min_profit_rate : {5, 10}]

\* the program has just started and one request for a report arrives
InitReport ==
    /\ today = 1
    /\ daily_usage = EmptyUsage
    /\ costRequest = NoRequest
    /\ costResult = NoResult
    /\ decisionRequest = NoRequest
    /\ decisionResponse = NoResult
    /\ matchRequest = NoRequest
    /\ matchResponse = NoResult
    /\ NoRateCalls
    /\ reportRequest \in ReportRequests
    /\ reportResponse = NoResult

\* GET /api/full-analysis
full_analysis ==
    /\ reportRequest # NoRequest
    /\ reportRequest.endpoint = "GET /api/full-analysis"
    /\ reportResponse = NoResult
    /\ reportResponse' = FullAnalysisResponse(reportRequest)
    /\ UNCHANGED <<today, daily_usage, costRequest, costResult, decisionRequest,
                   decisionResponse, matchRequest, matchResponse, rateVars,
                   reportRequest>>

\* POST /api/full-analysis
full_analysis_post ==
    /\ reportRequest # NoRequest
    /\ reportRequest.endpoint = "POST /api/full-analysis"
    /\ reportResponse = NoResult
    /\ reportResponse' = PostFullAnalysisResponse(reportRequest)
    /\ UNCHANGED <<today, daily_usage, costRequest, costResult, decisionRequest,
                   decisionResponse, matchRequest, matchResponse, rateVars,
                   reportRequest>>

NextReport == full_analysis \/ full_analysis_post

SpecReport == InitReport /\ [][NextReport]_vars

(***************************************************************************)
(* The claims about the cost estimator, checked under SpecCost.            *)
(***************************************************************************)
CostDone == costResult # NoResult

ZeroDiscounts == Discounts(0, 0, 0)
FullDiscounts == Discounts(100, 100, 100)

\* C1: for every base_price > 0 and each of the 11 work types, in the
\* standard breakdown material + labor + equipment equals the direct total,
\* and likewise in the actual breakdown.
C1_DirectTotalIsSum ==
    (CostDone /\ costResult.base_price > 0 /\ costResult.work_type \in WorkTypes)
        => /\ costResult.standard.material + costResult.standard.labor
                + costResult.standard.equipment = costResult.standard.direct
           /\ costResult.actual.material + costResult.actual.labor
                + costResult.actual.equipment = costResult.actual.direct

\* C2: for every base_price > 0 and every work type, the standard direct
\* total plus the standard indirect cost differs from base_price by at most 1.
C2_StandardSplitWithinOne ==
    (CostDone /\ costResult.base_price > 0)
        => Abs(costResult.base_price
                 - (costResult.standard.direct + costResult.standard.indirect)) <= 1

\* a request whose two truncations lose one unit together
C2_Witness ==
    /\ CostDone
    /\ costResult.base_price > 0
    /\ costResult.standard.direct + costResult.standard.indirect
         = costResult.base_price - 1

\* C3: with all three discounts 0, for every base_price > 0 and every work
\* type, the standard total is base_price and the actual total never exceeds
\* base_price and falls short of it by at most 4; for base_price
\* 1,000,000,000 and work type doro it equals base_price and the bubble rate
\* is 0.0.
C3_ZeroDiscountTotal ==
    (CostDone /\ costResult.base_price > 0 /\ costResult.discounts = ZeroDiscounts)
        => /\ costResult.standard.total = costResult.base_price
           /\ costResult.actual.total <= costResult.base_price
           /\ costResult.base_price - costResult.actual.total <= 4
           /\ (costResult.base_price = 1000000000 /\ costResult.work_type = "doro")
                => /\ costResult.actual.total = 1000000000
                   /\ costResult.bubble_rate = 0

\* an undiscounted estimate that loses the full 4 units to truncation
C3_Witness ==
    /\ CostDone
    /\ costResult.base_price > 0
    /\ costResult.discounts = ZeroDiscounts
    /\ costResult.base_price - costResult.actual.total = 4

\* C4: with all three discounts 100, for every base_price > 0 and every work
\* type, the actual direct cost, indirect cost and total are 0 and the bubble
\* rate is 100.0, also when the estimated direct cost truncates to 0.
C4_FullDiscountIsFree ==
    (CostDone /\ costResult.base_price > 0 /\ costResult.discounts = FullDiscounts)
        => /\ costResult.actual.direct = 0
           /\ costResult.actual.indirect = 0
           /\ costResult.actual.total = 0
           /\ costResult.bubble_rate = 1000

\* a fully discounted estimate of a base price whose direct cost truncates to
\* 0, where the reduction rate takes its guarded value 1
C4_Witness ==
    /\ CostDone
    /\ costResult.base_price > 0
    /\ costResult.discounts = FullDiscounts
    /\ costResult.standard.direct = 0
    /\ costResult.actual.total = 0

\* C5: the recommended bid rate returned is always within [75, 95], for every
\* base_price (zero and negative ones too) and every discount, below 0 and
\* above 100 too.
C5_RecommendedRateClamped ==
    CostDone => (750 <= costResult.recommended_rate
                 /\ costResult.recommended_rate <= 950)

\* a discount above 100 makes the cost negative and the rate is clamped up
C5_Witness ==
    /\ CostDone
    /\ costResult.base_price > 0
    /\ costResult.discounts.material > 100
    /\ costResult.actual.total < 0
    /\ costResult.recommended_rate = 750

C7Request ==
    /\ CostDone
    /\ costResult.base_price = 1000000000
    /\ costResult.work_type = "doro"
    /\ costResult.discounts = Discounts(10, 15, 10)

C7Parts ==
    /\ costResult.actual.material = 366300000
    /\ costResult.actual.labor = 157250000
    /\ costResult.actual.equipment = 133200000
    /\ costResult.actual.direct = 656750000

\* C7: for base_price 1,000,000,000, work type doro and discounts 10, 15, 10
\* the actual material, labor, equipment and direct costs are 366,300,000,
\* 157,250,000, 133,200,000 and 656,750,000, the direct reduction rate is
\* 0.88747... and the actual indirect cost lies between 230,742,000 and
\* 230,742,999.
C7_Original ==
    C7Request
        => /\ C7Parts
           /\ 230742000 <= costResult.actual.indirect
           /\ costResult.actual.indirect <= 230742999

\* C7, amended: the same costs, a direct reduction rate of exactly 0.8875
\* (= 71/80) and an actual indirect cost of 230,750,000.
C7_Amended ==
    C7Request
        => /\ C7Parts
           /\ costResult.actual.direct % 71 = 0
           /\ costResult.standard.direct % 80 = 0
           /\ costResult.actual.direct \div 71 = costResult.standard.direct \div 80
           /\ costResult.actual.indirect = 230750000
           /\ costResult.actual.total = 887500000

C7_Witness == C7Request /\ costResult.actual.indirect = 230750000

\* a positive base price and every discount between 0 and 100
DiscountsInRange ==
    /\ CostDone
    /\ costResult.base_price > 0
    /\ costResult.discounts.material \in 0 .. 100
    /\ costResult.discounts.labor \in 0 .. 100
    /\ costResult.discounts.equipment \in 0 .. 100

\* C18: for base_price > 0, every work type and discounts between 0 and 100,
\* the recommended bid price int(base_price * recommended_rate / 100) is
\* never lower than the minimum bid price int(actual_total * 1.05).
C18_RecommendedNotBelowMinimum ==
    DiscountsInRange
        => costResult.recommended_price >= costResult.min_bid_price

\* C19: for base_price > 0, every work type and discounts between 0 and 100,
\* 0 <= actual total <= base_price, the savings are not negative and the
\* bubble rate lies between 0 and 100.
C19_TotalWithinBasePrice ==
    DiscountsInRange
        => /\ 0 <= costResult.actual.total
           /\ costResult.actual.total <= costResult.base_price
           /\ costResult.savings >= 0
           /\ 0 <= costResult.bubble_rate
           /\ costResult.bubble_rate <= 1000

\* mixed discounts leave a total strictly between 0 and the base price
C19_Witness ==
    /\ DiscountsInRange
    /\ costResult.discounts = Discounts(50, 0, 25)
    /\ 0 < costResult.actual.total
    /\ costResult.actual.total < costResult.base_price
    /\ costResult.savings = costResult.base_price - costResult.actual.total
    /\ 0 < costResult.bubble_rate
    /\ costResult.bubble_rate < 1000

(***************************************************************************)
(* The claims about the daily limit, checked under SpecRate.               *)
(***************************************************************************)
RateClients == {c.ip : c \in BidCallers \cup PriceCallers}

AppTypes == DOMAIN ZeroCounters

\* the count stored in usage for (day, ip, app_type), 0 if there is none
Stored(usage, day, ip, app_type) ==
    Get(Get(Get(usage, day, <<>>), ip, ZeroCounters), app_type, 0)

\* the largest limit of an app type
LargestLimit(app_type) ==
    CHOOSE n \in {LIMITS[app_type][k] : k \in DOMAIN LIMITS[app_type]} :
        \A k \in DOMAIN LIMITS[app_type] : LIMITS[app_type][k] <= n

\* a step in which a handler called check_rate_limit; rateCall' is the call
RateLimitCall == search_prices \/ search_bids

\* the date of the stored usage is the date of the call
SameDay == today \in DOMAIN daily_usage

AcceptedWithinNormalLimit ==
    \A key \in DOMAIN acceptedNormal :
        acceptedNormal[key] <= LIMITS[key[2]].normal

StoredWithinLargestLimit ==
    \A day \in DOMAIN daily_usage : \A ip \in DOMAIN daily_usage[day] :
        \A app_type \in DOMAIN daily_usage[day][ip] :
            daily_usage[day][ip][app_type] <= LargestLimit(app_type)

RejectedAtLimit ==
    RateLimitCall
        => (Stored(daily_usage, today, rateCall'.ip, rateCall'.app_type)
                >= LimitOf(rateCall'.app_type, rateCall'.is_premium)
            => rateCall'.result.status_code = 429)

\* C14: within one day, for every client and app type, the accepted calls
\* made without the premium key never exceed the normal limit and the stored
\* count never exceeds the largest limit of the app type; a request made when
\* the stored count has reached the limit that applies to it is rejected
\* with 429.
C14_WithinLimits ==
    /\ [](AcceptedWithinNormalLimit /\ StoredWithinLargestLimit)
    /\ [][RejectedAtLimit]_vars

\* after premium calls took the count past the normal limit, a call
\* without the key is rejected although fewer than 10 such calls were
\* accepted
C14_Witness ==
    /\ rateCall # NoResult
    /\ rateCall.app_type = "bid"
    /\ ~rateCall.is_premium
    /\ rateCall.result.status_code = 429
    /\ Stored(daily_usage, today, rateCall.ip, "bid") > 10
    /\ Get(acceptedNormal, <<rateCall.ip, "bid">>, 0) \in 1 .. 9

\* the usage a first call of the day leaves: one date, one client, one count
FreshUsage(day, ip, app_type) ==
    day :> (ip :> [a \in AppTypes |-> IF a = app_type THEN 1 ELSE 0])

ResetOnNewDate ==
    (RateLimitCall /\ ~SameDay)
        => /\ daily_usage' = FreshUsage(today, rateCall'.ip, rateCall'.app_type)
           /\ rateCall'.result.status_code = 200
           /\ rateCall'.result.used = 1

\* C15: when the date differs from the date of the stored usage, the next
\* call of check_rate_limit discards the counters of all clients and app
\* types and is accepted with used = 1; daily_usage never holds counters for
\* more than one date.
C15_OneDate ==
    /\ [](Cardinality(DOMAIN daily_usage) <= 1)
    /\ [][ResetOnNewDate]_vars

\* the first call of the second day: both clients had counters for the
\* day before, and only the caller's new counters are left
C15_Witness ==
    /\ today = 2
    /\ rateCall # NoResult
    /\ rateCall.day = 2
    /\ DOMAIN rateCall.before = {1}
    /\ DOMAIN rateCall.before[1] = RateClients
    /\ Stored(rateCall.before, 1, "10.0.0.1", "bid") > 1
    /\ Stored(rateCall.before, 1, "10.0.0.2", "cost") > 1
    /\ rateCall.result.status_code = 200
    /\ rateCall.result.used = 1
    /\ daily_usage = FreshUsage(2, rateCall.ip, rateCall.app_type)

\* a rejected call changes no counter
RejectedChangesNothing == daily_usage' = daily_usage

\* an accepted call adds 1 to the counter of its client and app type only,
\* and returns the new count, the limit applied and what is left of it
AcceptedCountsOnce ==
    /\ \A ip \in RateClients, app_type \in AppTypes :
          Stored(daily_usage', today, ip, app_type)
              = Stored(daily_usage, today, ip, app_type)
                + (IF ip = rateCall'.ip /\ app_type = rateCall'.app_type
                   THEN 1 ELSE 0)
    /\ rateCall'.result.used
          = Stored(daily_usage', today, rateCall'.ip, rateCall'.app_type)
    /\ rateCall'.result.limit = LimitOf(rateCall'.app_type, rateCall'.is_premium)
    /\ rateCall'.result.remaining = rateCall'.result.limit - rateCall'.result.used
    /\ rateCall'.result.remaining >= 0

CallWithinDay ==
    (SameDay /\ RateLimitCall)
        => IF rateCall'.result.status_code = 429
           THEN RejectedChangesNothing
           ELSE AcceptedCountsOnce

NeverDecreasing ==
    today' = today
        => \A ip \in RateClients, app_type \in AppTypes :
               Stored(daily_usage', today, ip, app_type)
                   >= Stored(daily_usage, today, ip, app_type)

\* C16: within one day a rejected call leaves every counter unchanged; an
\* accepted call adds exactly 1 to the counter of its (ip, app type), leaves
\* the others unchanged and returns used = the new count, limit = the limit
\* applied and remaining = limit - used >= 0; no counter decreases within a
\* day.
C16_CountersStepByOne ==
    [][CallWithinDay /\ NeverDecreasing]_vars

\* both clients have counters, the last call was the premium client's 200th
\* and used up its limit
C16_Witness ==
    /\ rateCall # NoResult
    /\ rateCall.is_premium
    /\ rateCall.result.status_code = 200
    /\ rateCall.result.used = 200
    /\ rateCall.result.remaining = 0
    /\ Stored(daily_usage, today, "10.0.0.1", "bid") = 200
    /\ Stored(daily_usage, today, "10.0.0.2", "cost") > 0

(***************************************************************************)
(* The claims about the decision scorer, checked under SpecDecision.       *)
(***************************************************************************)
DecisionDone ==
    /\ decisionResponse # NoResult
    /\ decisionResponse.status_code = 200

\* what analyze_n2b_decision was called with
DecisionArguments ==
    IF decisionRequest.endpoint = "POST /api/n2b-decision"
    THEN decisionRequest
    ELSE WithDefaultLists(decisionRequest)

\* the score of the request before it is limited to the range
DecisionRawScore ==
    RawScore(DecisionArguments,
             N2BBubbleRate(decisionRequest.base_price, decisionRequest.estimated_cost),
             ProfitRate(decisionRequest.base_price, decisionRequest.estimated_cost))

\* C6: the score analyze_n2b_decision returns is an integer from 0 to 100,
\* whatever the prices, the required profit rate and the two lists are.
C6_ScoreInRange ==
    DecisionDone => decisionResponse.body.score \in 0 .. 100

\* the limit acts: with the longest weakness list the points of the request
\* add up to less than 0 and the score returned is 0
C6_Witness ==
    /\ DecisionDone
    /\ Len(DecisionArguments.company_weakness) = MaxPhrases
    /\ DecisionRawScore < 0
    /\ decisionResponse.body.score = 0

\* the (phrase, group) pairs where the strength phrase holds a keyword of
\* the group
StrengthHits ==
    { h \in (DOMAIN DecisionArguments.company_strength) \X (DOMAIN strength_keywords) :
        \E k \in DOMAIN strength_keywords[h[2]] :
            Contains(DecisionArguments.company_strength[h[1]],
                     strength_keywords[h[2]][k]) }

\* the weakness phrases that hold at least one negative keyword
PenalisedWeaknesses ==
    { i \in DOMAIN DecisionArguments.company_weakness :
        \E k \in DOMAIN weakness_keywords :
            Contains(DecisionArguments.company_weakness[i], weakness_keywords[k]) }

\* the points of the prices alone
PricePoints ==
    50 + BubblePoints(N2BBubbleRate(decisionRequest.base_price,
                                    decisionRequest.estimated_cost))
       + ProfitPoints(ProfitRate(decisionRequest.base_price,
                                 decisionRequest.estimated_cost),
                      decisionRequest.min_profit_rate)

\* C17: before the score is limited to the range, each strength phrase adds
\* 5 for every keyword group it holds a keyword of (0 to 15 per phrase, each
\* phrase on its own) and each weakness phrase takes off exactly 5 if it
\* holds at least one negative keyword, however many it holds.
C17_PhrasePoints ==
    DecisionDone
        => decisionResponse.body.score
               = ClampScore(PricePoints + 5 * Cardinality(StrengthHits)
                                        - 5 * Cardinality(PenalisedWeaknesses))

\* one strength with keywords of all three groups (+15) and one weakness
\* with two negative keywords (-5), the score staying inside the range
C17_Witness ==
    /\ DecisionDone
    /\ decisionRequest.endpoint = "POST /api/n2b-decision"
    /\ decisionRequest.company_strength
           = << <<"ja", "ga", "jang", "bi", "suk", "ryeon", "ja", "jae">> >>
    /\ decisionRequest.company_weakness
           = << <<"mi", "gyeong", "heom", "_", "cheo", "eum">> >>
    /\ Cardinality(StrengthHits) = 3
    /\ Cardinality(PenalisedWeaknesses) = 1
    /\ PricePoints = 40
    /\ decisionResponse.body.score = 50

\* C20: with no weakness phrases (quick-decision) the score is at least 40
\* for every input, so the decision is never bulcham gwonjang (불참 권장);
\* that decision is reached only through weakness penalties.
C20_NoWeaknessAtLeast40 ==
    DecisionDone
        => /\ DecisionArguments.company_weakness = <<>>
                => /\ decisionResponse.body.score >= 40
                   /\ decisionResponse.body.decision # "bulcham gwonjang"
           /\ decisionResponse.body.decision = "bulcham gwonjang"
                => PenalisedWeaknesses # {}

\* quick-decision with a cost above the base price: no bubble points, the
\* profit penalty, and the score is exactly 40
C20_Witness ==
    /\ DecisionDone
    /\ decisionRequest.endpoint = "GET /api/quick-decision"
    /\ decisionRequest.estimated_cost > decisionRequest.base_price
    /\ decisionRequest.base_price > 0
    /\ decisionResponse.body.score = 40
    /\ decisionResponse.body.decision = "sinjung geomto"

(***************************************************************************)
(* The claims about the matchers, checked under SpecMatch.                 *)
(***************************************************************************)
MatchDone ==
    /\ matchResponse # NoResult
    /\ matchResponse.status_code = 200

IsBidMatch == matchRequest.endpoint = "POST /api/bid-match"

\* the request is matched against a profile
WithProfile ==
    IF IsBidMatch
    THEN matchRequest.profile # NoProfile
    ELSE matchRequest.profile_name \in DOMAIN SAMPLE_PROFILES

MatchProfile ==
    IF IsBidMatch THEN matchRequest.profile
    ELSE SAMPLE_PROFILES[matchRequest.profile_name]

\* the announcements in the order they were fetched; the i-th has bid_no i
FetchedBids == fetch_bid_announcements(matchRequest.remote, matchRequest.bid_type)

MatchedList == matchResponse.body.matched

Listed(bid_no) == \E k \in DOMAIN MatchedList : MatchedList[k].bid_no = bid_no

\* the announcement's price is a number other than zero outside the range
\* of the profile
PricedOutOfRange(bid) ==
    /\ CanInt(PriceOf(bid))
    /\ IntOf(PriceOf(bid)) # IntZero
    /\ \/ ~IntLeq(MatchProfile.min_price, IntOf(PriceOf(bid)))
       \/ ~IntLeq(IntOf(PriceOf(bid)), MatchProfile.max_price)

NamedForProfile(bid) ==
    \E k \in DOMAIN MatchProfile.work_types :
        Contains(bid.bid_name, MatchProfile.work_types[k])

InRegionOfProfile(bid) ==
    \E k \in DOMAIN MatchProfile.regions :
        Contains(RegionOf(bid), MatchProfile.regions[k])

\* C8: in match_bids with a profile and in quick_match, an announcement
\* whose price (base_price, else estimated_price) is not zero and lies
\* outside [min_price, max_price] is never in the matched list, whatever
\* else matches.
C8_OutOfRangeNeverMatched ==
    (MatchDone /\ WithProfile) =>
        \A i \in DOMAIN FetchedBids :
            PricedOutOfRange(FetchedBids[i]) => ~Listed(i)

\* match_bids has dropped an announcement priced above the range whose
\* name and region both match the profile
C8_Witness ==
    /\ MatchDone
    /\ IsBidMatch
    /\ WithProfile
    /\ \E i \in DOMAIN FetchedBids :
        /\ PricedOutOfRange(FetchedBids[i])
        /\ ~IntLeq(IntOf(PriceOf(FetchedBids[i])), MatchProfile.max_price)
        /\ NamedForProfile(FetchedBids[i])
        /\ InRegionOfProfile(FetchedBids[i])
        /\ ~Listed(i)

\* C9: the matched list is in order of match_score, highest first, and
\* announcements of equal match_score are in the order they were fetched.
C9_SortedStable ==
    MatchDone =>
        \A i, j \in DOMAIN MatchedList :
            i < j =>
                /\ SortKey(MatchedList[i]) >= SortKey(MatchedList[j])
                /\ SortKey(MatchedList[i]) = SortKey(MatchedList[j])
                       => MatchedList[i].bid_no < MatchedList[j].bid_no

\* the sort has moved an announcement ahead of one fetched before it, and
\* the list has two announcements of equal score with one of another score
\* fetched between them
C9_Witness ==
    /\ MatchDone
    /\ WithProfile
    /\ \E i, j \in DOMAIN MatchedList :
        i < j /\ MatchedList[i].bid_no > MatchedList[j].bid_no
    /\ \E i, j, k \in DOMAIN MatchedList :
        /\ MatchedList[i].bid_no < MatchedList[k].bid_no
        /\ MatchedList[k].bid_no < MatchedList[j].bid_no
        /\ SortKey(MatchedList[i]) = SortKey(MatchedList[j])
        /\ SortKey(MatchedList[i]) # SortKey(MatchedList[k])

\* the value is missing (then 0 by default), null, the number 0 or the
\* text of the number 0
AbsentOrZero(v) == ~Truthy(v) \/ (CanInt(v) /\ IntOf(v) = IntZero)

Unpriced(bid) == AbsentOrZero(bid.base_price) /\ AbsentOrZero(bid.estimated_price)

ListedBid(bid_no) ==
    MatchedList[CHOOSE k \in DOMAIN MatchedList : MatchedList[k].bid_no = bid_no]

\* C10: in match_bids with a profile, an announcement whose base_price and
\* estimated_price are both absent or zero is not excluded by the price
\* filter: it is kept exactly when a work-type keyword of the profile is in
\* its name, and then without the 30 points for the price.
C10_UnpricedKeptByWorkType ==
    (MatchDone /\ IsBidMatch /\ WithProfile) =>
        \A i \in DOMAIN FetchedBids :
            Unpriced(FetchedBids[i]) =>
                /\ Listed(i) <=> NamedForProfile(FetchedBids[i])
                /\ Listed(i) => ListedBid(i).match_score \in {25, 45}

\* C12: whatever a remote lookup gets, a failure makes it return an empty
\* list and the endpoint that called it still answers normally; malformed
\* data of the remote service, an announcement whose price is not an integer
\* string included, never comes out as a failure.  Here: every request that
\* the matchers accept (the profile is known, the limit is not reached) is
\* answered with 200, with nothing matched when the lookup failed.
C12_RemoteFailuresAbsorbed ==
    (matchResponse # NoResult /\ matchResponse.status_code \notin {404, 429})
        => /\ matchResponse.status_code = 200
           /\ matchRequest.remote.failed => MatchedList = <<>>

(***************************************************************************)
(* The claims about the two reports, checked under SpecReport.             *)
(***************************************************************************)
ReportAnswered == reportResponse # NoResult

ReportDone == ReportAnswered /\ reportResponse.status_code = 200

\* C11: every rate with a denominator that can be zero is guarded: with a
\* base price of 0, an estimated cost of 0 or a recommended price of 0 the
\* estimator, the scorer and both reports of /api/full-analysis never raise
\* a division by zero, and the rate is 0.
C11_NoDivisionByZero ==
    ReportAnswered
        => /\ reportResponse.status_code = 200
           /\ reportRequest.base_price = 0
                => reportResponse.body.summary.bubble_rate = 0

\* what calculate_rough_cost gives as the actual total for the request
ReportCost ==
    calculate_rough_cost([base_price |-> reportRequest.base_price,
                          work_type |-> reportRequest.work_type,
                          discounts |-> reportRequest.discounts]).actual.total

\* what analyze_n2b_decision gives for the base price, a cost and the
\* required profit rate of the request
ReportDecision(estimated_cost) ==
    analyze_n2b_decision(ReportDecisionArguments(reportRequest, estimated_cost))

FiveTiers ==
    {"jeokgeuk chamyeo", "chamyeo gwonjang", "jogeonbu chamyeo",
     "sinjung geomto", "bulcham gwonjang"}

\* C13: both reports of /api/full-analysis are the composition of the
\* estimator and the scorer: the estimated cost is calculate_rough_cost's
\* actual total, the decision and the score are what analyze_n2b_decision
\* gives for (base_price, that cost, min_profit_rate), and the decision is
\* one of the five tiers.
C13_ReportIsComposition ==
    ReportDone
        => /\ reportResponse.body.summary.estimated_cost = ReportCost
           /\ reportResponse.body.summary.decision
                 = ReportDecision(reportResponse.body.summary.estimated_cost).decision
           /\ reportResponse.body.summary.score
                 = ReportDecision(reportResponse.body.summary.estimated_cost).score
           /\ reportResponse.body.summary.decision \in FiveTiers

====
